---- MODULE Spec2Model ----
(***************************************************************************)
(* Verification model of deepwiki-go's RAG engine.                         *)
(*                                                                         *)
(*   Part I   ProviderRegistry (internal/rag/rag.go)                       *)
(*   Part II  streaming generation: the provider goroutines of             *)
(*            GoogleRAG / OpenAIRAG.GenerateStreamingResponse and the SSE  *)
(*            loop of Server.handleChatCompletions                         *)
(*   Part III conversation memory (internal/rag/memory.go)                 *)
(*   Part IV  corpus and retrieval: GoogleRAG / OpenAIRAG over             *)
(*            DatabaseManager, one call at a time and concurrently         *)
(*   Part V   concurrent calls on one Memory                               *)
(*                                                                         *)
(* Each part has its own next-state relation and specification; the        *)
(* variables of the other parts stay at their initial values.              *)
(***************************************************************************)
EXTENDS Integers, Sequences, FiniteSets, TLC

(***************************************************************************)
(* Bounds                                                                  *)
(***************************************************************************)
\* number of provider objects offered to Register
MaxProviders == 4

\* number of responses (Google) or body lines (OpenAI) a backend stream yields
MaxItems == 3

\* number of parts of one response / choices of one chunk
MaxParts == 2

\* number of turns a Memory is given before it is cleared
MaxTurns == 4

\* number of words of an argument of similarityScore
MaxWords == 2

\* number of candidates handed to the re-ranking
MaxCands == 2

\* number of turns in the Memory of a provider that retrieves
MaxRerankTurns == 1

\* number of rows the Milvus collection takes, and of documents r.Documents takes
MaxRows == 2

\* Config.Retriever.TopK
TopK == 2

\* number of goroutines calling one provider at once
MaxThreads == 2

\* number of documents a VectorStore holds
MaxStored == 3

\* lines of a text given to SplitText, and words of a line
MaxLines == 2
MaxLineWords == 2

\* largest configured ChunkSize and ChunkOverlap
MaxChunkSize == 2

\* chunks after which a word loop that has not ended is no longer followed
MaxChunks == 5

\* seconds a client is followed for, and requests it sends
MaxClock == 2
MaxSent == 62

(***************************************************************************)
(* Part I: ProviderRegistry                                                *)
(***************************************************************************)
VARIABLES
    providers,   \* ProviderRegistry.providers: map name -> provider object
    active,      \* ProviderRegistry.active: "" when unset
    ret,         \* the last registry call and what it returned
    calls        \* provider methods invoked by the last registry call

regVars == <<providers, active, ret, calls>>

\* The names provider objects answer from Name(); "google" and "openai" are
\* the two implementations, "local" stands for any further implementation.
NameTable == <<"google", "openai", "local">>

Names == {NameTable[i] : i \in 1..Len(NameTable)}

\* Provider objects; distinct objects may share a name.
ProviderObjs == 1..MaxProviders

NoProvider == 0

\* RAGProvider.Name()
Name(p) == NameTable[((p - 1) % Len(NameTable)) + 1]

\* NewProviderRegistry: empty map, active unset
NewProviderRegistry ==
    /\ providers = [n \in {} |-> NoProvider]
    /\ active = ""
    /\ ret = [op |-> "none", prov |-> NoProvider, name |-> "", err |-> "",
              val |-> NoProvider, was |-> ""]
    /\ calls = <<>>

\* What a call returned: err is "" for a nil error, val the provider handed
\* back (GetActive only); was is the active name when the call started.
Result(op, p, name, err, val) ==
    [op |-> op, prov |-> p, name |-> name, err |-> err, val |-> val, was |-> active]

\* Mutant of Register: Initialize() runs before the duplicate check.
RegisterInitFirst(p, initOK) ==
    LET name == Name(p) IN
    /\ calls' = <<<<"Initialize", p>>>>
    /\ IF ~initOK
       THEN /\ ret' = Result("Register", p, name, "init failed", NoProvider)
            /\ UNCHANGED <<providers, active>>
       ELSE IF name \in DOMAIN providers
       THEN /\ ret' = Result("Register", p, name, "already registered", NoProvider)
            /\ UNCHANGED <<providers, active>>
       ELSE /\ providers' = [n \in DOMAIN providers \cup {name} |->
                                IF n = name THEN p ELSE providers[n]]
            /\ active' = IF active = "" THEN name ELSE active
            /\ ret' = Result("Register", p, name, "", NoProvider)

\* Mutant of Register: the provider is stored before Initialize() is checked.
RegisterStoreFirst(p, initOK) ==
    LET name == Name(p) IN
    IF name \in DOMAIN providers
    THEN /\ ret' = Result("Register", p, name, "already registered", NoProvider)
         /\ calls' = <<>>
         /\ UNCHANGED <<providers, active>>
    ELSE /\ providers' = [n \in DOMAIN providers \cup {name} |->
                             IF n = name THEN p ELSE providers[n]]
         /\ calls' = <<<<"Initialize", p>>>>
         /\ IF ~initOK
            THEN /\ ret' = Result("Register", p, name, "init failed", NoProvider)
                 /\ UNCHANGED active
            ELSE /\ active' = IF active = "" THEN name ELSE active
                 /\ ret' = Result("Register", p, name, "", NoProvider)

\* Mutant of Register: every successful registration becomes the active one.
RegisterAlwaysActive(p, initOK) ==
    LET name == Name(p) IN
    IF name \in DOMAIN providers
    THEN /\ ret' = Result("Register", p, name, "already registered", NoProvider)
         /\ calls' = <<>>
         /\ UNCHANGED <<providers, active>>
    ELSE /\ calls' = <<<<"Initialize", p>>>>
         /\ IF ~initOK
            THEN /\ ret' = Result("Register", p, name, "init failed", NoProvider)
                 /\ UNCHANGED <<providers, active>>
            ELSE /\ providers' = [n \in DOMAIN providers \cup {name} |->
                                     IF n = name THEN p ELSE providers[n]]
                 /\ active' = name
                 /\ ret' = Result("Register", p, name, "", NoProvider)

\* ProviderRegistry.Register(provider); initOK is the outcome of
\* provider.Initialize() should it be called.
Register(p, initOK) ==
    LET name == Name(p) IN
    IF name \in DOMAIN providers
    THEN /\ ret' = Result("Register", p, name, "already registered", NoProvider)
         /\ calls' = <<>>
         /\ UNCHANGED <<providers, active>>
    ELSE /\ calls' = <<<<"Initialize", p>>>>
         /\ IF ~initOK
            THEN /\ ret' = Result("Register", p, name, "init failed", NoProvider)
                 /\ UNCHANGED <<providers, active>>
            ELSE /\ providers' = [n \in DOMAIN providers \cup {name} |->
                                     IF n = name THEN p ELSE providers[n]]
                 /\ active' = IF active = "" THEN name ELSE active
                 /\ ret' = Result("Register", p, name, "", NoProvider)

\* Mutant of SetActive: the existence check is missing.
SetActiveUnchecked(name) ==
    /\ active' = name
    /\ ret' = Result("SetActive", NoProvider, name, "", NoProvider)
    /\ calls' = <<>>
    /\ UNCHANGED providers

\* ProviderRegistry.SetActive(name)
SetActive(name) ==
    /\ calls' = <<>>
    /\ UNCHANGED providers
    /\ IF name \notin DOMAIN providers
       THEN /\ ret' = Result("SetActive", NoProvider, name, "not registered", NoProvider)
            /\ UNCHANGED active
       ELSE /\ active' = name
            /\ ret' = Result("SetActive", NoProvider, name, "", NoProvider)

\* ProviderRegistry.GetActive()
GetActive ==
    /\ calls' = <<>>
    /\ UNCHANGED <<providers, active>>
    /\ IF active = ""
       THEN ret' = Result("GetActive", NoProvider, active, "no active provider", NoProvider)
       ELSE IF active \notin DOMAIN providers
       THEN ret' = Result("GetActive", NoProvider, active, "active provider missing", NoProvider)
       ELSE ret' = Result("GetActive", NoProvider, active, "", providers[active])

\* The active name Unregister(name) leaves behind: when name is the active
\* one, the first other key the map iteration yields (any of them), or ""
\* when there is none.
ActiveAfterUnregister(name, other) ==
    IF active = name
    THEN IF DOMAIN providers \ {name} = {} THEN "" ELSE other
    ELSE active

\* Mutant of Unregister: the active name is left alone.
UnregisterKeepActive(name, closeOK) ==
    IF name \notin DOMAIN providers
    THEN /\ ret' = Result("Unregister", NoProvider, name, "not registered", NoProvider)
         /\ calls' = <<>>
         /\ UNCHANGED <<providers, active>>
    ELSE /\ calls' = <<<<"Close", providers[name]>>>>
         /\ UNCHANGED active
         /\ IF ~closeOK
            THEN /\ ret' = Result("Unregister", providers[name], name, "close failed", NoProvider)
                 /\ UNCHANGED providers
            ELSE /\ providers' = [n \in DOMAIN providers \ {name} |-> providers[n]]
                 /\ ret' = Result("Unregister", providers[name], name, "", NoProvider)

\* Mutant of Unregister: an active provider's successor is taken from all
\* names, registered or not.
UnregisterAnySuccessor(name, closeOK) ==
    IF name \notin DOMAIN providers
    THEN /\ ret' = Result("Unregister", NoProvider, name, "not registered", NoProvider)
         /\ calls' = <<>>
         /\ UNCHANGED <<providers, active>>
    ELSE /\ calls' = <<<<"Close", providers[name]>>>>
         /\ \E other \in Names \ {name} : active' = ActiveAfterUnregister(name, other)
         /\ IF ~closeOK
            THEN /\ ret' = Result("Unregister", providers[name], name, "close failed", NoProvider)
                 /\ UNCHANGED providers
            ELSE /\ providers' = [n \in DOMAIN providers \ {name} |-> providers[n]]
                 /\ ret' = Result("Unregister", providers[name], name, "", NoProvider)

\* ProviderRegistry.Unregister(name); closeOK is the outcome of
\* provider.Close() should it be called.  The active name is switched
\* before Close() is called, and a failing Close() returns early without
\* restoring it.
Unregister(name, closeOK) ==
    IF name \notin DOMAIN providers
    THEN /\ ret' = Result("Unregister", NoProvider, name, "not registered", NoProvider)
         /\ calls' = <<>>
         /\ UNCHANGED <<providers, active>>
    ELSE /\ calls' = <<<<"Close", providers[name]>>>>
         /\ \E other \in (IF DOMAIN providers \ {name} = {} THEN {""}
                          ELSE DOMAIN providers \ {name}) :
               active' = ActiveAfterUnregister(name, other)
         /\ IF ~closeOK
            THEN /\ ret' = Result("Unregister", providers[name], name, "close failed", NoProvider)
                 /\ UNCHANGED providers
            ELSE /\ providers' = [n \in DOMAIN providers \ {name} |-> providers[n]]
                 /\ ret' = Result("Unregister", providers[name], name, "", NoProvider)

\* The registry as RAGManager.Close has brought it so far: the provider
\* map, the active name, the names whose Unregister failed and the
\* providers whose Close() was called.
Closing(provs, act, errs, closed) ==
    [providers |-> provs, active |-> act, errs |-> errs, closed |-> closed]

\* m.UnregisterProvider(name) on the registry st, for a registered name:
\* the registries it can leave.
AfterUnregister(st, name, ok) ==
    LET others == DOMAIN st.providers \ {name}
        successors == IF st.active # name THEN {st.active}
                      ELSE IF others = {} THEN {""} ELSE others
    IN  {Closing(IF ok THEN [n \in others |-> st.providers[n]] ELSE st.providers,
                 act,
                 IF ok THEN st.errs ELSE Append(st.errs, name),
                 Append(st.closed, <<"Close", st.providers[name]>>)) :
            act \in successors}

RECURSIVE UnregisterEachUntilError(_, _, _)
UnregisterEachUntilError(names, st, closeOK) ==
    IF names = <<>> \/ st.errs # <<>>
    THEN {st}
    ELSE UNION {UnregisterEachUntilError(Tail(names), next, closeOK) :
                   next \in AfterUnregister(st, Head(names), closeOK[Head(names)])}

\* The loop of RAGManager.Close over the listed names: an error is kept
\* and the loop goes on.
RECURSIVE UnregisterEach(_, _, _)
UnregisterEach(names, st, closeOK) ==
    IF names = <<>>
    THEN {st}
    ELSE UNION {UnregisterEach(Tail(names), next, closeOK) :
                   next \in AfterUnregister(st, Head(names), closeOK[Head(names)])}

\* The lists m.ListProviders() can return: the keys of the map in any order.
ListProviders ==
    {names \in [1..Cardinality(DOMAIN providers) -> DOMAIN providers] :
        \A i, j \in DOMAIN names : names[i] = names[j] => i = j}

\* RAGManager.Close(); closeOK[name] is the outcome of Close() of the
\* provider registered under name.
Close(closeOK) ==
    \E names \in ListProviders :
        \E st \in UnregisterEach(names, Closing(providers, active, <<>>, <<>>), closeOK) :
            /\ providers' = st.providers
            /\ active' = st.active
            /\ calls' = st.closed
            /\ ret' = Result("Close", NoProvider, "",
                             IF st.errs = <<>> THEN "" ELSE "close failed", NoProvider)

(***************************************************************************)
(* Part II: streaming generation                                           *)
(*                                                                         *)
(* One chat request: Server.handleChatCompletions runs gin's Stream, whose *)
(* step calls provider.GenerateStreamingResponse and ranges over the       *)
(* returned unbuffered channel; the provider's goroutine reads the backend *)
(* stream and sends each text fragment on the channel.                     *)
(***************************************************************************)
VARIABLES
    impl,        \* implementation behind the active provider: "google" / "openai"
    ready,       \* the provider's client field is non-nil
    hpc,         \* handler position: "idle", "select", "range", "done"
    clientGone,  \* value returned by c.Stream
    gpc,         \* goroutine position: "none", "start", "next", "send", "senderr", "closed"
    status,      \* OpenAI: kind of HTTP response Do() returned
    nItems,      \* responses / body lines read from the backend so far
    pending,     \* fragments of the current response still to be sent
    produced,    \* text fragments the backend has produced so far, in order
    backendEnd,  \* how the backend's stream ended: "", "eof", "error", "httperror"
    attempts,    \* generation requests issued to the backend
    closes,      \* number of close(responseCh) executed
    received,    \* fragments the handler has received from responseCh
    events,      \* SSE events the handler has written
    connected,   \* the caller's connection is open
    observed     \* SSE events that reached the caller

streamVars == <<impl, ready, hpc, clientGone, gpc, status, nItems, pending, produced,
                backendEnd, attempts, closes, received, events, connected, observed>>

\* The error string a goroutine sends before it returns; text fragments are
\* numbered from 1 in production order, a part that carries no text is 0.
ErrFragment == -1

NonText == 0

Impls == {"google", "openai"}

Event(type, data) == [type |-> type, data |-> data]

\* No request in flight.
StreamIdle ==
    /\ impl = ""
    /\ ready = FALSE
    /\ hpc = "idle"
    /\ clientGone = FALSE
    /\ gpc = "none"
    /\ status = ""
    /\ nItems = 0
    /\ pending = <<>>
    /\ produced = <<>>
    /\ backendEnd = ""
    /\ attempts = 0
    /\ closes = 0
    /\ received = <<>>
    /\ events = <<>>
    /\ connected = TRUE
    /\ observed = <<>>

\* Shapes of a response's Parts / a chunk's Choices: TRUE is a text part.
Shapes == UNION {[1..n -> BOOLEAN] : n \in 0..MaxParts}

\* Number of text parts among the first i parts of a shape.
RECURSIVE TextsUpTo(_, _)
TextsUpTo(shape, i) ==
    IF i = 0 THEN 0
    ELSE TextsUpTo(shape, i - 1) + (IF shape[i] THEN 1 ELSE 0)

\* The item the backend yields next: its text parts carry the next fragment
\* numbers, its other parts NonText.
Item(shape) ==
    [i \in 1..Len(shape) |->
        IF shape[i] THEN Len(produced) + TextsUpTo(shape, i) ELSE NonText]

\* The text fragments of an item, in the backend's order.
TextsOf(item) == SelectSeq(item, LAMBDA x : x # NonText)

\* Mutant of PartsToSend: the parts are sent last to first.
RECURSIVE PartsToSendReversed(_)
PartsToSendReversed(item) ==
    IF item = <<>> THEN <<>>
    ELSE PartsToSendReversed(Tail(item)) \o
         (IF Head(item) # NonText THEN <<Head(item)>> ELSE <<>>)

\* The sends of the loop over resp.Candidates[0].Content.Parts (Google: only
\* genai.Text parts) and over chunk.Choices (OpenAI: only non-empty Delta.Content),
\* one send per part, first to last.
RECURSIVE PartsToSend(_)
PartsToSend(item) ==
    IF item = <<>> THEN <<>>
    ELSE (IF Head(item) # NonText THEN <<Head(item)>> ELSE <<>>) \o
         PartsToSend(Tail(item))

\* c.SSEvent: the event is written to the response; it reaches the caller
\* only while the connection is open (a failed write is ignored).
SSEvent(e) ==
    /\ events' = Append(events, e)
    /\ observed' = IF connected THEN Append(observed, e) ELSE observed

\* handleChatCompletions up to the c.Stream call: the provider returned by
\* GetActiveProvider and the state of its client.
HandleChatCompletions ==
    /\ hpc = "idle"
    /\ \E i \in Impls, r \in BOOLEAN : impl' = i /\ ready' = r
    /\ hpc' = "select"
    /\ UNCHANGED <<clientGone, gpc, status, nItems, pending, produced, backendEnd,
                   attempts, closes, received, events, connected, observed>>

\* c.Stream selects on the connection's close notification before each
\* step; finding the connection already closed it returns true and the step
\* never runs.
StreamClientGone ==
    /\ hpc = "select"
    /\ ~connected
    /\ clientGone' = TRUE
    /\ hpc' = "done"
    /\ UNCHANGED <<impl, ready, gpc, status, nItems, pending, produced, backendEnd,
                   attempts, closes, received, events, connected, observed>>

\* c.Stream runs the step: GenerateStreamingResponse fails when the client
\* is nil, else it makes the channel and starts the goroutine.
StreamStep ==
    /\ hpc = "select"
    /\ connected
    /\ IF ~ready
       THEN /\ SSEvent(Event("error", 0))
            /\ hpc' = "done"
            /\ UNCHANGED gpc
       ELSE /\ gpc' = "start"
            /\ hpc' = "range"
            /\ UNCHANGED <<events, observed>>
    /\ UNCHANGED <<impl, ready, clientGone, status, nItems, pending, produced,
                   backendEnd, attempts, closes, received, connected>>

\* GoogleRAG goroutine: model.GenerateContentStream, called once.
GoogleStart ==
    /\ gpc = "start"
    /\ impl = "google"
    /\ attempts' = attempts + 1
    /\ gpc' = "next"
    /\ UNCHANGED <<impl, ready, hpc, clientGone, status, nItems, pending, produced,
                   backendEnd, closes, received, events, connected, observed>>

\* iter.Next() returns a response.
GoogleNextResponse ==
    /\ gpc = "next"
    /\ impl = "google"
    /\ nItems < MaxItems
    /\ \E shape \in Shapes :
          LET item == Item(shape) IN
          /\ produced' = produced \o TextsOf(item)
          /\ pending' = PartsToSend(item)
          /\ gpc' = IF PartsToSend(item) = <<>> THEN "next" ELSE "send"
    /\ nItems' = nItems + 1
    /\ UNCHANGED <<impl, ready, hpc, clientGone, status, backendEnd, attempts, closes,
                   received, events, connected, observed>>

\* iter.Next() returns io.EOF: return, the deferred close runs.
GoogleNextEOF ==
    /\ gpc = "next"
    /\ impl = "google"
    /\ backendEnd' = "eof"
    /\ gpc' = "closed"
    /\ closes' = closes + 1
    /\ UNCHANGED <<impl, ready, hpc, clientGone, status, nItems, pending, produced,
                   attempts, received, events, connected, observed>>

\* iter.Next() returns another error: the error text is sent, then return.
\* (The context.Canceled branch is not modelled: the stream runs on
\* context.Background(), which is never cancelled.)
GoogleNextError ==
    /\ gpc = "next"
    /\ impl = "google"
    /\ backendEnd' = "error"
    /\ pending' = <<ErrFragment>>
    /\ gpc' = "senderr"
    /\ UNCHANGED <<impl, ready, hpc, clientGone, status, nItems, produced, attempts,
                   closes, received, events, connected, observed>>

\* OpenAIRAG goroutine: r.OpenAIClient.Do(req), called once (http.NewRequest
\* with a constant method and URL does not fail).  Do returns
\* an error only when the exchange itself fails; a response with an error
\* status is returned with a nil error and its body is read like any other.
OpenAIDo ==
    /\ gpc = "start"
    /\ impl = "openai"
    /\ attempts' = attempts + 1
    /\ \E outcome \in {"neterr", "ok", "httperror"} :
          IF outcome = "neterr"
          THEN /\ backendEnd' = "error"
               /\ pending' = <<ErrFragment>>
               /\ gpc' = "senderr"
               /\ UNCHANGED status
          ELSE /\ status' = outcome
               /\ backendEnd' = IF outcome = "httperror" THEN "httperror" ELSE ""
               /\ gpc' = "next"
               /\ UNCHANGED pending
    /\ UNCHANGED <<impl, ready, hpc, clientGone, nItems, produced, closes, received,
                   events, connected, observed>>

\* reader.ReadString returns a line that is skipped: blank, not starting
\* with "data:", or a data line whose JSON does not parse.  The body of an
\* error response has only such lines.
OpenAISkipLine ==
    /\ gpc = "next"
    /\ impl = "openai"
    /\ nItems < MaxItems
    /\ nItems' = nItems + 1
    /\ UNCHANGED <<impl, ready, hpc, clientGone, gpc, status, pending, produced,
                   backendEnd, attempts, closes, received, events, connected, observed>>

\* reader.ReadString returns a data line with a chunk.
OpenAIChunkLine ==
    /\ gpc = "next"
    /\ impl = "openai"
    /\ status = "ok"
    /\ nItems < MaxItems
    /\ \E shape \in Shapes :
          LET item == Item(shape) IN
          /\ produced' = produced \o TextsOf(item)
          /\ pending' = PartsToSend(item)
          /\ gpc' = IF PartsToSend(item) = <<>> THEN "next" ELSE "send"
    /\ nItems' = nItems + 1
    /\ UNCHANGED <<impl, ready, hpc, clientGone, status, backendEnd, attempts, closes,
                   received, events, connected, observed>>

\* The loop ends without an error: "data: [DONE]" or io.EOF.
OpenAIEndOfBody ==
    /\ gpc = "next"
    /\ impl = "openai"
    /\ backendEnd' = IF status = "ok" THEN "eof" ELSE backendEnd
    /\ gpc' = "closed"
    /\ closes' = closes + 1
    /\ UNCHANGED <<impl, ready, hpc, clientGone, status, nItems, pending, produced,
                   attempts, received, events, connected, observed>>

\* reader.ReadString fails: the error text is sent, then break.
OpenAIReadError ==
    /\ gpc = "next"
    /\ impl = "openai"
    /\ backendEnd' = IF status = "ok" THEN "error" ELSE backendEnd
    /\ pending' = <<ErrFragment>>
    /\ gpc' = "senderr"
    /\ UNCHANGED <<impl, ready, hpc, clientGone, status, nItems, produced, attempts,
                   closes, received, events, connected, observed>>

\* One iteration of "for chunk := range responseCh": the goroutine's send
\* and the handler's receive meet on the unbuffered channel, and the handler
\* writes the chunk as a "message" event.  The loop has no other exit than
\* the close of the channel.
Deliver ==
    /\ hpc = "range"
    /\ gpc \in {"send", "senderr"}
    /\ received' = Append(received, Head(pending))
    /\ SSEvent(Event("message", Head(pending)))
    /\ pending' = Tail(pending)
    /\ IF gpc = "senderr"
       THEN gpc' = "closed" /\ closes' = closes + 1
       ELSE gpc' = (IF Tail(pending) = <<>> THEN "next" ELSE "send") /\ UNCHANGED closes
    /\ UNCHANGED <<impl, ready, hpc, clientGone, status, nItems, produced, backendEnd,
                   attempts, connected>>

\* The channel is closed: the range loop ends, "done" is written, the step
\* returns false and c.Stream returns false.
RangeEnd ==
    /\ hpc = "range"
    /\ gpc = "closed"
    /\ SSEvent(Event("done", 0))
    /\ hpc' = "done"
    /\ UNCHANGED <<impl, ready, clientGone, gpc, status, nItems, pending, produced,
                   backendEnd, attempts, closes, received, connected>>

\* The caller closes its connection.
ClientDisconnect ==
    /\ connected
    /\ hpc # "done"
    /\ connected' = FALSE
    /\ UNCHANGED <<impl, ready, hpc, clientGone, gpc, status, nItems, pending, produced,
                   backendEnd, attempts, closes, received, events, observed>>

(***************************************************************************)
(* Part III: conversation memory (internal/rag/memory.go)                  *)
(*                                                                         *)
(* A string is modelled by the list of words strings.Fields splits it      *)
(* into.  The vocabulary has a one-byte word and two words that differ     *)
(* only in case, which is what similarityScore and strings.ToLower tell    *)
(* apart.  The uuid of a DialogTurn is not modelled: no code reads it.     *)
(***************************************************************************)
VARIABLES
    dialogTurns,  \* Memory.dialogTurns
    mret,         \* the last Memory call and what it returned
    sim           \* the last similarityScore call: arguments and result

memVars == <<dialogTurns, mret, sim>>

\* Words of the query vocabulary.
Words == {"a", "go", "Go", "auth"}

\* len(word): the byte length of a word.  "wenti:" and "huida:" stand for
\* the two labels GetRelevantContext writes before a question and before
\* an answer (two CJK characters and a colon: 7 bytes); "wenti" and
\* "huida" are the labels without the colon (6 bytes).
WordLen(w) ==
    CASE w = "a" -> 1
      [] w \in {"go", "Go"} -> 2
      [] w = "auth" -> 4
      [] w \in {"wenti", "huida"} -> 6
      [] w \in {"wenti:", "huida:"} -> 7

\* strings.ToLower of one word.
ToLowerWord(w) == IF w = "Go" THEN "go" ELSE w

\* strings.ToLower of a string: word by word.
ToLower(s) == [i \in 1..Len(s) |-> ToLowerWord(s[i])]

\* All lower-case strings of at most MaxWords words: GetRelevantContext
\* passes lower-cased strings to similarityScore.
Texts == UNION {[1..n -> {ToLowerWord(w) : w \in Words}] : n \in 0..MaxWords}

\* The user queries and assistant responses of the stored turns.
UserQueries == {<<"Go">>, <<"a", "auth">>, <<"go", "a", "a">>}

Responses == {<<"auth">>, <<"Go", "a">>}

\* maxTurns of GetRelevantContext.
maxTurns == 3

\* The relevance threshold 0.3 of GetRelevantContext, as a fraction.
ThresholdNum == 3

ThresholdDen == 10

DialogTurn(q, r) == [UserQuery |-> q, AssistantResponse |-> r]

MemCall(op, query, val) == [op |-> op, query |-> query, val |-> val]

NoScore == [a |-> <<>>, b |-> <<>>, num |-> 0, den |-> 1]

\* NewMemory, and no similarityScore call made yet.
MemoryIdle ==
    /\ dialogTurns = <<>>
    /\ mret = MemCall("", <<>>, <<>>)
    /\ sim = NoScore

AddDialogTurnFirst(q, r) ==
    /\ Len(dialogTurns) < MaxTurns
    /\ dialogTurns' = <<DialogTurn(q, r)>> \o dialogTurns
    /\ mret' = MemCall("AddDialogTurn", <<>>, <<>>)
    /\ UNCHANGED sim

\* Memory.AddDialogTurn(userQuery, assistantResponse), under mutex.Lock.
AddDialogTurn(q, r) ==
    /\ Len(dialogTurns) < MaxTurns
    /\ dialogTurns' = Append(dialogTurns, DialogTurn(q, r))
    /\ mret' = MemCall("AddDialogTurn", <<>>, <<>>)
    /\ UNCHANGED sim

\* Memory.Clear(), under mutex.Lock.
Clear ==
    /\ dialogTurns' = <<>>
    /\ mret' = MemCall("Clear", <<>>, <<>>)
    /\ UNCHANGED sim

\* matches of similarityScore: the words of a, counted with repetition,
\* that are longer than one byte and equal to some word of b.
Matches(a, b) ==
    Cardinality({i \in 1..Len(a) :
                    WordLen(a[i]) > 1 /\ \E j \in 1..Len(b) : a[i] = b[j]})

\* similarityScore(a, b) as the fraction num/den: 0 when either string has
\* no word, else matches / (len(aWords) + len(bWords) - matches).
similarityScore(a, b) ==
    IF Len(a) = 0 \/ Len(b) = 0
    THEN [num |-> 0, den |-> 1]
    ELSE [num |-> Matches(a, b), den |-> Len(a) + Len(b) - Matches(a, b)]

\* score > 0.3
AboveThreshold(score) == ThresholdDen * score.num > ThresholdNum * score.den

\* The string GetRelevantContext builds: for each turn the question label,
\* the question, the answer label, the answer.
RECURSIVE FormatContext(_)
FormatContext(turns) ==
    IF turns = <<>>
    THEN <<>>
    ELSE <<"wenti:">> \o Head(turns).UserQuery
            \o <<"huida:">> \o Head(turns).AssistantResponse
            \o FormatContext(Tail(turns))

\* The last maxTurns turns of the log (the whole log when it is shorter).
Window(turns) ==
    LET startIdx == IF Len(turns) > maxTurns THEN Len(turns) - maxTurns ELSE 0
    IN  SubSeq(turns, startIdx + 1, Len(turns))

RelevantTurnsWholeLog(turns, query) ==
    LET relevantTurns ==
            SelectSeq(turns,
                      LAMBDA t : AboveThreshold(
                          similarityScore(ToLower(query), ToLower(t.UserQuery))))
    IN  IF relevantTurns = <<>> THEN turns ELSE relevantTurns

\* The turns GetRelevantContext keeps: those of the window that score
\* above the threshold against the lower-cased query, or the whole window.
RelevantTurns(turns, query) ==
    LET relevantTurns ==
            SelectSeq(Window(turns),
                      LAMBDA t : AboveThreshold(
                          similarityScore(ToLower(query), ToLower(t.UserQuery))))
    IN  IF relevantTurns = <<>> THEN Window(turns) ELSE relevantTurns

\* The value of Memory.GetRelevantContext(query).
RelevantContext(turns, query) ==
    IF Len(turns) = 0 THEN <<>> ELSE FormatContext(RelevantTurns(turns, query))

\* Memory.GetRelevantContext(query), under mutex.RLock.
GetRelevantContext(query) ==
    /\ mret' = MemCall("GetRelevantContext", query,
                       RelevantContext(dialogTurns, query))
    /\ UNCHANGED <<dialogTurns, sim>>

\* One call similarityScore(a, b).
SimilarityScoreCall(a, b) ==
    /\ sim' = [a |-> a, b |-> b] @@ similarityScore(a, b)
    /\ UNCHANGED <<dialogTurns, mret>>

(***************************************************************************)
(* Part IV: corpus and retrieval (internal/rag/google_rag.go,              *)
(* internal/rag/openai_rag.go, internal/data/database.go)                  *)
(*                                                                         *)
(* One provider, GoogleRAG or OpenAIRAG, with its Memory (Part III) and    *)
(* its DatabaseManager; the Milvus collection "deepwiki_documents" is the  *)
(* list of rows inserted into it.                                          *)
(***************************************************************************)
VARIABLES
    kind,       \* which implementation the provider is; "" before it is made
    RepoURL,    \* GoogleRAG.RepoURL / OpenAIRAG.RepoURL
    Documents,  \* GoogleRAG.Documents
    rows,       \* the rows of the Milvus collection, in insertion order
    noHits,     \* what the Milvus client returns for a search without hits
    rret,       \* the last provider call and what it returned
    rerank,     \* the last enhanceRetrievalWithMemory call: input and output
    tpc,        \* concurrent calls: where each goroutine is in its call
    tlocal      \* concurrent calls: the r.Documents value a goroutine loaded

corpusVars == <<kind, RepoURL, Documents, rows, noHits, rret, rerank, tpc, tlocal>>

\* utils.MaxEmbeddingTokens, the limit readAllDocuments compares with.
TokenLimit == 8192

\* The documents of the model.  repo is the repository the document comes
\* from: no code stores it, the properties need it.  tokens is what
\* utils.CountTokens returns for Text.  Text and Title are lists of words;
\* "oauth" contains the query word "auth".
MainGoA ==
    [repo |-> "A", ID |-> "main.go", file_path |-> "main.go",
     Title |-> <<>>, Text |-> <<"go">>,
     Importance |-> "", tokens |-> TokenLimit + 1]

ReadmeA ==
    [repo |-> "A", ID |-> "README.md", file_path |-> "README.md",
     Title |-> <<"Auth">>, Text |-> <<"go", "oauth">>,
     Importance |-> "high", tokens |-> TokenLimit]

ReadmeB ==
    [repo |-> "B", ID |-> "README.md", file_path |-> "README.md",
     Title |-> <<>>, Text |-> <<"a">>,
     Importance |-> "medium", tokens |-> 10]

\* A second document file of repository B, found after README.md.
NotesB ==
    [repo |-> "B", ID |-> "notes.txt", file_path |-> "notes.txt",
     Title |-> <<>>, Text |-> <<"go">>,
     Importance |-> "", tokens |-> 10]

DocPool == {MainGoA, ReadmeA, ReadmeB}

Repos == {d.repo : d \in DocPool}

\* strings.Contains(w, k) for a word k and a lower-cased word w.
IsSubstring(k, w) ==
    \/ k = w
    \/ k = "auth" /\ w = "oauth"
    \/ k = "a" /\ w \in {"auth", "oauth"}

\* strings.ToLower of a document word.
ToLowerDocWord(w) == IF w = "Auth" THEN "auth" ELSE ToLowerWord(w)

\* strings.Contains(strings.ToLower(text), strings.ToLower(keyword)): a
\* keyword has no white space, so it is inside one word of the text.
Contains(text, keyword) ==
    \E i \in 1..Len(text) :
        IsSubstring(ToLowerWord(keyword), ToLowerDocWord(text[i]))

\* strings.Trim(word, ",.!?;:\"'()[]{}"): of the words of the model only
\* the two labels of a context carry such a character.
Trim(w) ==
    CASE w = "wenti:" -> "wenti"
      [] w = "huida:" -> "huida"
      [] OTHER -> w

\* stopWords of extractKeywords: ten one-character CJK words, written here
\* in pinyin; none is in the vocabulary of the model.
StopWords == {"de", "le", "he", "shi", "zai", "zhe", "you", "wo", "men", "wei"}

\* extractKeywords(text)
extractKeywords(text) ==
    SelectSeq([i \in 1..Len(text) |-> ToLowerWord(Trim(text[i]))],
              LAMBDA w : w # "" /\ w \notin StopWords /\ WordLen(w) > 1)

\* calculateContextScore(doc, contextKeywords), times two so that the
\* factor 1.5 stays an integer: 1.0 for a keyword found in the text, 2.0
\* for one found in the title, times 1.5 when Importance is "high".
RECURSIVE KeywordScore(_, _)
KeywordScore(doc, keywords) ==
    IF keywords = <<>>
    THEN 0
    ELSE (IF Contains(doc.Text, Head(keywords)) THEN 1 ELSE 0)
         + (IF Contains(doc.Title, Head(keywords)) THEN 2 ELSE 0)
         + KeywordScore(doc, Tail(keywords))

calculateContextScore(doc, contextKeywords) ==
    IF doc.Importance = "high"
    THEN 3 * KeywordScore(doc, contextKeywords)
    ELSE 2 * KeywordScore(doc, contextKeywords)

\* The orders of n elements.
Orders(n) == {p \in [1..n -> 1..n] : \A i, j \in 1..n : p[i] = p[j] => i = j}

reRankKeepScored(docs, context) ==
    LET kept == SelectSeq(docs, LAMBDA d :
                    calculateContextScore(d, extractKeywords(context)) > 0)
    IN  {[i \in 1..Len(kept) |-> kept[p[i]]] : p \in
            {q \in Orders(Len(kept)) :
                \A i \in 1..(Len(kept) - 1) :
                    calculateContextScore(kept[q[i]], extractKeywords(context))
                    >= calculateContextScore(kept[q[i + 1]], extractKeywords(context))}}

\* reRankDocumentsWithContext(docs, context): the results sort.Slice can
\* give, a copy of docs in an order of non-increasing score; sort.Slice is
\* not stable, so documents of equal score come in any order.
reRankDocumentsWithContext(docs, context) ==
    LET contextKeywords == extractKeywords(context)
        Sorted(p) ==
            \A i \in 1..(Len(docs) - 1) :
                calculateContextScore(docs[p[i]], contextKeywords)
                >= calculateContextScore(docs[p[i + 1]], contextKeywords)
    IN  {[i \in 1..Len(docs) |-> docs[p[i]]] :
            p \in {q \in Orders(Len(docs)) : Sorted(q)}}

\* enhanceRetrievalWithMemory(query, docs): the results it can return.
enhanceRetrievalWithMemory(query, docs) ==
    LET context == RelevantContext(dialogTurns, query)
    IN  IF context = <<>>
        THEN {docs}
        ELSE reRankDocumentsWithContext(docs, context)

\* Two more candidates for the re-ranking: ReadmeA marked "medium", which
\* matches the keywords ReadmeA matches, and ReadmeB marked "high", which
\* like ReadmeB matches no keyword.
ReadmeAMedium == [ReadmeA EXCEPT !.Importance = "medium"]

ReadmeBHigh == [ReadmeB EXCEPT !.Importance = "high"]

RerankPool == DocPool \cup {ReadmeAMedium, ReadmeBHigh}

\* Candidate lists handed to the re-ranking.
Candidates == UNION {[1..n -> RerankPool] : n \in 0..MaxCands}

NoRerank == [query |-> <<>>, docs |-> <<>>, out |-> <<>>]

\* One call enhanceRetrievalWithMemory(query, docs); a behaviour makes one
\* such call, whose result depends on the memory and the arguments only.
EnhanceRetrieval(query, docs) ==
    /\ rerank = NoRerank
    /\ \E out \in enhanceRetrievalWithMemory(query, docs) :
          rerank' = [query |-> query, docs |-> docs, out |-> out]
    /\ UNCHANGED <<kind, RepoURL, Documents, rows, noHits, rret, tpc, tlocal>>

\* The files readAllDocuments finds under a repository path, in the order
\* it visits them: code extensions before document extensions.
RepoFiles(repo) == IF repo = "A" THEN <<MainGoA, ReadmeA>> ELSE <<ReadmeB, NotesB>>

\* The files os.ReadFile fails on.
VARIABLE unreadable

fsVars == <<unreadable>>

FilesReadable == unreadable = {}

\* The files of all repositories.
Files == UNION {{RepoFiles(repo)[i] : i \in 1..Len(RepoFiles(repo))} : repo \in Repos}

\* A file loses its read permission before the provider is made; one file
\* at most does.
MakeUnreadable(f) ==
    /\ kind = ""
    /\ unreadable = {}
    /\ unreadable' = {f}

\* The models.Document readAllDocuments builds from a file: Text and
\* MetaData only.
FileDoc(f) == [f EXCEPT !.ID = "", !.Title = <<>>, !.Importance = ""]

\* The files before the first one that cannot be read.
RECURSIVE UntilUnreadable(_)
UntilUnreadable(files) ==
    IF files = <<>> \/ Head(files) \in unreadable
    THEN <<>>
    ELSE <<Head(files)>> \o UntilUnreadable(Tail(files))

readAllDocumentsStopAtUnreadable(repo) ==
    LET kept == SelectSeq(UntilUnreadable(RepoFiles(repo)),
                          LAMBDA f : ~(f.tokens > TokenLimit))
    IN  [i \in 1..Len(kept) |-> FileDoc(kept[i])]

\* readAllDocuments(path): a file os.ReadFile fails on is skipped, and so
\* is a file of more than 8192 tokens.
readAllDocuments(repo) ==
    LET kept == SelectSeq(RepoFiles(repo),
                          LAMBDA f : f \notin unreadable /\ ~(f.tokens > TokenLimit))
    IN  [i \in 1..Len(kept) |-> FileDoc(kept[i])]

\* generateDocID(identifier): the hash of the relative path, one number
\* per path of the model.
generateDocID(identifier) ==
    CASE identifier = "main.go" -> 1
      [] identifier = "README.md" -> 2
      [] identifier = "notes.txt" -> 3

\* The row addDocumentInternal inserts for a document.
Row(doc) ==
    [doc_id |-> generateDocID(doc.file_path), file_path |-> doc.file_path,
     raw_text |-> doc.Text, tokens |-> doc.tokens, repo |-> doc.repo]

\* The models.Document SearchDocuments builds from a row of a result.
RowDoc(row) ==
    [repo |-> row.repo, ID |-> "", file_path |-> row.file_path,
     Title |-> <<>>, Text |-> row.raw_text, Importance |-> "",
     tokens |-> row.tokens]

ProviderCall(op, arg, err, docs, read) ==
    [op |-> op, arg |-> arg, err |-> err, docs |-> docs, read |-> read]

\* The zero models.Document.
NoDoc ==
    [repo |-> "", ID |-> "", file_path |-> "", Title |-> <<>>, Text |-> <<>>,
     Importance |-> "", tokens |-> 0]

NoThread == [at |-> "idle", doc |-> NoDoc, id |-> ""]

\* No provider made yet; the collection exists and is empty.
CorpusIdle ==
    /\ kind = ""
    /\ RepoURL = ""
    /\ Documents = <<>>
    /\ rows = <<>>
    /\ noHits = ""
    /\ rret = ProviderCall("", "", "", <<>>, 0)
    /\ rerank = NoRerank
    /\ tpc = [t \in 1..MaxThreads |-> NoThread]
    /\ tlocal = [t \in 1..MaxThreads |-> <<>>]

\* NewGoogleRAG / NewOpenAIRAG with NewDatabaseManager, which connects to
\* Milvus.  For a search without hits the Milvus client returns a result
\* set either with the output columns, empty, or without them; which of
\* the two is a property of the client, the same for every search.
NewRAG(k) ==
    /\ kind = ""
    /\ kind' = k
    /\ noHits' \in {"columns", "no columns"}
    /\ rret' = ProviderCall("New", k, "", <<>>, 0)
    /\ UNCHANGED <<RepoURL, Documents, rows, rerank, tpc, tlocal>>

\* PrepareRetriever(repoURLOrPath, accessToken) with
\* DatabaseManager.PrepareDatabase: every file is read and every document
\* read is inserted; rret.read is the number of os.ReadFile calls.
PrepareRetriever(repo) ==
    /\ kind # ""
    /\ Len(rows) + Len(readAllDocuments(repo)) <= MaxRows
    /\ RepoURL' = repo
    /\ rows' = rows \o [i \in 1..Len(readAllDocuments(repo)) |->
                           Row(readAllDocuments(repo)[i])]
    /\ rret' = ProviderCall("PrepareRetriever", repo, "", <<>>,
                            Len(RepoFiles(repo)))
    /\ UNCHANGED <<kind, noHits, Documents, rerank, tpc, tlocal>>

\* IndexDocument(doc) with DatabaseManager.AddDocument.
IndexDocument(doc) ==
    /\ kind # ""
    /\ Len(rows) < MaxRows
    /\ Len(Documents) < MaxRows
    /\ rows' = Append(rows, Row(doc))
    /\ Documents' = IF kind = "google" THEN Append(Documents, doc) ELSE Documents
    /\ rret' = ProviderCall("IndexDocument", doc.file_path, "", <<>>, 0)
    /\ UNCHANGED <<kind, noHits, RepoURL, rerank, tpc, tlocal>>

\* The list without its first document whose ID is id.
RECURSIVE RemoveFirst(_, _)
RemoveFirst(docs, id) ==
    IF docs = <<>>
    THEN <<>>
    ELSE IF Head(docs).ID = id
         THEN Tail(docs)
         ELSE <<Head(docs)>> \o RemoveFirst(Tail(docs), id)

\* DeleteDocument(id) with DatabaseManager.DeleteDocument: Milvus deletes
\* the rows whose doc_id is the hash of id.
DeleteDocument(id) ==
    /\ kind # ""
    /\ rows' = SelectSeq(rows, LAMBDA row : row.doc_id # generateDocID(id))
    /\ Documents' = IF kind = "google" THEN RemoveFirst(Documents, id) ELSE Documents
    /\ rret' = ProviderCall("DeleteDocument", id, "", <<>>, 0)
    /\ UNCHANGED <<kind, noHits, RepoURL, rerank, tpc, tlocal>>

\* DatabaseManager.SearchDocuments(query, topK): what it can return.  The
\* embeddings of the rows and of the query are random vectors
\* (getEmbedding), so the nearest rows are any topK rows in any order.  On
\* an empty collection the result set has no hit: the empty list without
\* error when it has its columns, the error "missing expected columns"
\* when it has none.
SearchDocuments(topK) ==
    LET n == IF Len(rows) < topK THEN Len(rows) ELSE topK
        hits == {p \in [1..n -> 1..Len(rows)] :
                    \A i, j \in 1..n : p[i] = p[j] => i = j}
    IN  IF rows = <<>>
        THEN {IF noHits = "columns"
              THEN [err |-> "", docs |-> <<>>]
              ELSE [err |-> "missing expected columns", docs |-> <<>>]}
        ELSE {[err |-> "", docs |-> [i \in 1..n |-> RowDoc(rows[p[i]])]] :
                 p \in hits}

\* What RetrieveDocuments(query) returns: GoogleRAG refuses when
\* r.Documents is empty and re-ranks what the search found; OpenAIRAG
\* returns what the search found.
Retrieved(query) ==
    IF kind = "google" /\ Len(Documents) = 0
    THEN rret' = ProviderCall("RetrieveDocuments", query, "no documents", <<>>, 0)
    ELSE \E found \in SearchDocuments(TopK) :
            IF found.err # ""
            THEN rret' = ProviderCall("RetrieveDocuments", query, found.err, <<>>, 0)
            ELSE \E out \in (IF kind = "google"
                             THEN enhanceRetrievalWithMemory(query, found.docs)
                             ELSE {found.docs}) :
                    rret' = ProviderCall("RetrieveDocuments", query, "", out, 0)

\* GoogleRAG.RetrieveDocuments(query) / OpenAIRAG.RetrieveDocuments(query)
RetrieveDocuments(query) ==
    /\ kind # ""
    /\ Retrieved(query)
    /\ UNCHANGED <<kind, noHits, RepoURL, Documents, rows, rerank, tpc, tlocal>>

(***************************************************************************)
(* Concurrent calls on one GoogleRAG.  DatabaseManager's methods run under *)
(* dm.mu; r.Documents is read and assigned without a lock, so a call is a  *)
(* database step, a load of r.Documents and a store to it.  Each goroutine *)
(* makes one call.                                                         *)
(***************************************************************************)
Threads == 1..MaxThreads

At(t, at, doc, id) == [tpc EXCEPT ![t] = [at |-> at, doc |-> doc, id |-> id]]

\* IndexDocument: r.DbManager.AddDocument(doc)
IndexAdd(t, doc) ==
    /\ kind = "google"
    /\ tpc[t].at = "idle"
    /\ Len(rows) < MaxRows
    /\ Len(Documents) < MaxRows
    /\ rows' = Append(rows, Row(doc))
    /\ tpc' = At(t, "index added", doc, "")
    /\ UNCHANGED <<kind, noHits, RepoURL, Documents, rret, rerank, tlocal>>

\* IndexDocument: append reads r.Documents
IndexLoad(t) ==
    /\ tpc[t].at = "index added"
    /\ tlocal' = [tlocal EXCEPT ![t] = Documents]
    /\ tpc' = At(t, "index loaded", tpc[t].doc, "")
    /\ UNCHANGED <<kind, noHits, RepoURL, Documents, rows, rret, rerank>>

\* IndexDocument: r.Documents = append(...), return nil
IndexStore(t) ==
    /\ tpc[t].at = "index loaded"
    /\ Documents' = Append(tlocal[t], tpc[t].doc)
    /\ tpc' = At(t, "indexed", tpc[t].doc, "")
    /\ UNCHANGED <<kind, noHits, RepoURL, rows, rret, rerank, tlocal>>

\* DeleteDocument: r.DbManager.DeleteDocument(id)
DeleteRows(t, id) ==
    /\ kind = "google"
    /\ tpc[t].at = "idle"
    /\ rows' = SelectSeq(rows, LAMBDA row : row.doc_id # generateDocID(id))
    /\ tpc' = At(t, "delete done in database", NoDoc, id)
    /\ UNCHANGED <<kind, noHits, RepoURL, Documents, rret, rerank, tlocal>>

\* DeleteDocument: range r.Documents reads the slice
DeleteLoad(t) ==
    /\ tpc[t].at = "delete done in database"
    /\ tlocal' = [tlocal EXCEPT ![t] = Documents]
    /\ tpc' = At(t, "delete loaded", NoDoc, tpc[t].id)
    /\ UNCHANGED <<kind, noHits, RepoURL, Documents, rows, rret, rerank>>

\* DeleteDocument: r.Documents = append(r.Documents[:i], ...) when a
\* document with this ID was found, return nil
DeleteStore(t) ==
    /\ tpc[t].at = "delete loaded"
    /\ Documents' = IF \E i \in 1..Len(tlocal[t]) : tlocal[t][i].ID = tpc[t].id
                    THEN RemoveFirst(tlocal[t], tpc[t].id)
                    ELSE Documents
    /\ tpc' = At(t, "deleted", NoDoc, tpc[t].id)
    /\ UNCHANGED <<kind, noHits, RepoURL, rows, rret, rerank, tlocal>>

\* RetrieveDocuments: len(r.Documents) and the search
RetrieveConcurrent(t, query) ==
    /\ kind = "google"
    /\ tpc[t].at = "idle"
    /\ Retrieved(query)
    /\ tpc' = At(t, "retrieved", NoDoc, "")
    /\ UNCHANGED <<kind, noHits, RepoURL, Documents, rows, rerank, tlocal>>

\* PrepareRetriever: r.RepoURL = repoURLOrPath
PrepareSetURL(t, repo) ==
    /\ kind = "google"
    /\ tpc[t].at = "idle"
    /\ RepoURL' = repo
    /\ tpc' = At(t, "prepare url set", NoDoc, repo)
    /\ UNCHANGED <<kind, noHits, Documents, rows, rret, rerank, tlocal>>

\* PrepareRetriever: r.DbManager.PrepareDatabase(repoURLOrPath, accessToken),
\* the whole of it under dm.mu.Lock, and return nil
PrepareDatabase(t) ==
    /\ tpc[t].at = "prepare url set"
    /\ Len(rows) + Len(readAllDocuments(tpc[t].id)) <= MaxRows
    /\ rows' = rows \o [i \in 1..Len(readAllDocuments(tpc[t].id)) |->
                           Row(readAllDocuments(tpc[t].id)[i])]
    /\ tpc' = At(t, "prepared", NoDoc, tpc[t].id)
    /\ UNCHANGED <<kind, noHits, RepoURL, Documents, rret, rerank, tlocal>>

(***************************************************************************)
(* Part V: concurrent calls on one Memory.  Every method takes m.mutex,    *)
(* a sync.RWMutex: Lock for AddDialogTurn and Clear, RLock for the three   *)
(* readers.  A call is the lock, the steps of its body and the unlock;     *)
(* append is a load of m.dialogTurns and a store to it, a reader looks at  *)
(* m.dialogTurns when it takes the length and again when it copies or      *)
(* ranges over the turns.  Each goroutine makes one call.                  *)
(***************************************************************************)
VARIABLES
    mutex,  \* Memory.mutex: the goroutine holding Lock (0: none) and those holding RLock
    mpc     \* where each goroutine is in its Memory call, and what it has seen

mutexVars == <<mutex, mpc>>

NoTurn == DialogTurn(<<>>, <<>>)

Writers == {"AddDialogTurn", "Clear"}

Readers == {"GetDialogTurns", "GetFormattedHistory", "GetRelevantContext"}

MemThread(at, op, turn, first, second) ==
    [at |-> at, op |-> op, turn |-> turn, first |-> first, second |-> second]

\* The mutex of NewMemory is unlocked; no goroutine has called yet.
MutexIdle ==
    /\ mutex = [writer |-> 0, readers |-> {}]
    /\ mpc = [t \in Threads |-> MemThread("idle", "", NoTurn, <<>>, <<>>)]

MemLockShared(t, op, turn) ==
    /\ mpc[t].at = "idle"
    /\ mutex' = [mutex EXCEPT !.writer = t]
    /\ mpc' = [mpc EXCEPT ![t] = MemThread("locked", op, turn, <<>>, <<>>)]
    /\ UNCHANGED dialogTurns

\* m.mutex.Lock() of AddDialogTurn(turn) or Clear(): waits until no
\* goroutine holds the mutex.
MemLock(t, op, turn) ==
    /\ mpc[t].at = "idle"
    /\ mutex.writer = 0
    /\ mutex.readers = {}
    /\ mutex' = [mutex EXCEPT !.writer = t]
    /\ mpc' = [mpc EXCEPT ![t] = MemThread("locked", op, turn, <<>>, <<>>)]
    /\ UNCHANGED dialogTurns

\* AddDialogTurn: append reads m.dialogTurns
AddLoad(t) ==
    /\ mpc[t].at = "locked"
    /\ mpc[t].op = "AddDialogTurn"
    /\ mpc' = [mpc EXCEPT ![t].at = "loaded", ![t].first = dialogTurns]
    /\ UNCHANGED <<dialogTurns, mutex>>

\* AddDialogTurn: m.dialogTurns = append(...)
AddStore(t) ==
    /\ mpc[t].at = "loaded"
    /\ dialogTurns' = Append(mpc[t].first, mpc[t].turn)
    /\ mpc' = [mpc EXCEPT ![t].at = "stored"]
    /\ UNCHANGED mutex

\* Clear: m.dialogTurns = make([]models.DialogTurn, 0)
ClearStore(t) ==
    /\ mpc[t].at = "locked"
    /\ mpc[t].op = "Clear"
    /\ dialogTurns' = <<>>
    /\ mpc' = [mpc EXCEPT ![t].at = "stored"]
    /\ UNCHANGED mutex

\* the deferred m.mutex.Unlock()
MemUnlock(t) ==
    /\ mpc[t].at = "stored"
    /\ mutex' = [mutex EXCEPT !.writer = 0]
    /\ mpc' = [mpc EXCEPT ![t].at = "done"]
    /\ UNCHANGED dialogTurns

\* m.mutex.RLock() of a reader: waits while a goroutine holds Lock.
MemRLock(t, op) ==
    /\ mpc[t].at = "idle"
    /\ mutex.writer = 0
    /\ mutex' = [mutex EXCEPT !.readers = @ \cup {t}]
    /\ mpc' = [mpc EXCEPT ![t] = MemThread("rlocked", op, NoTurn, <<>>, <<>>)]
    /\ UNCHANGED dialogTurns

\* a reader takes len(m.dialogTurns)
ReadLen(t) ==
    /\ mpc[t].at = "rlocked"
    /\ mpc' = [mpc EXCEPT ![t].at = "measured", ![t].first = dialogTurns]
    /\ UNCHANGED <<dialogTurns, mutex>>

\* a reader copies or ranges over m.dialogTurns
ReadTurns(t) ==
    /\ mpc[t].at = "measured"
    /\ mpc' = [mpc EXCEPT ![t].at = "read", ![t].second = dialogTurns]
    /\ UNCHANGED <<dialogTurns, mutex>>

\* the deferred m.mutex.RUnlock()
MemRUnlock(t) ==
    /\ mpc[t].at = "read"
    /\ mutex' = [mutex EXCEPT !.readers = @ \ {t}]
    /\ mpc' = [mpc EXCEPT ![t].at = "done"]
    /\ UNCHANGED dialogTurns

(***************************************************************************)
(* Part VI: the VectorStore (storage.go), the in-memory list v.documents   *)
(* and its search by cosine similarity.  A vector is a list of naturals.   *)
(***************************************************************************)
VARIABLES vdocuments, vret,
    docsFile   \* documents.json of the repository, <<>> while it does not exist

storeVars == <<vdocuments, vret, docsFile>>

\* The documents handed to the store; the last has no vector.
VecDocs ==
    {[id |-> "x", Vector |-> <<1, 0>>], [id |-> "y", Vector |-> <<1, 1>>],
     [id |-> "z", Vector |-> <<0, 1>>], [id |-> "e", Vector |-> <<>>]}

\* The vectors searched with: one is empty, one has another dimension.
QueryVectors == {<<>>, <<1>>, <<1, 1>>}

StoreCall(op, err, docs, was, queryVector, topK) ==
    [op |-> op, err |-> err, docs |-> docs, was |-> was,
     queryVector |-> queryVector, topK |-> topK]

\* json.MarshalIndent(docs): "vector" is omitted for a document without one.
MarshalDocs(docs) ==
    [i \in 1..Len(docs) |->
        IF Len(docs[i].Vector) = 0
        THEN [text |-> docs[i].id]
        ELSE [text |-> docs[i].id, vector |-> docs[i].Vector]]

\* json.Unmarshal(data, &docs)
UnmarshalDocs(data) ==
    [i \in 1..Len(data) |->
        [id |-> data[i].text,
         Vector |-> IF "vector" \in DOMAIN data[i] THEN data[i].vector ELSE <<>>]]

\* NewVectorStore()
NewVectorStore ==
    /\ vdocuments = <<>>
    /\ vret = StoreCall("", "", <<>>, <<>>, <<>>, 0)
    /\ docsFile = <<>>

\* NewVectorStore() in a process started later: the files are still there.
Reopen ==
    /\ vret.op # "NewVectorStore"
    /\ vdocuments' = <<>>
    /\ vret' = StoreCall("NewVectorStore", "", <<>>, vdocuments, <<>>, 0)
    /\ UNCHANGED docsFile

\* SaveDocuments(docs, repoID); written is whether the directory and the
\* file could be written.
SaveDocuments(docs, written) ==
    /\ Len(vdocuments) + Len(docs) <= MaxStored
    /\ IF docs = <<>>
       THEN /\ vret' = StoreCall("SaveDocuments", "", <<>>, vdocuments, <<>>, 0)
            /\ UNCHANGED <<vdocuments, docsFile>>
       ELSE IF ~written
       THEN /\ vret' = StoreCall("SaveDocuments", "save failed", <<>>, vdocuments, <<>>, 0)
            /\ UNCHANGED <<vdocuments, docsFile>>
       ELSE /\ docsFile' = MarshalDocs(docs)
            /\ vdocuments' = vdocuments \o docs
            /\ vret' = StoreCall("SaveDocuments", "", <<>>, vdocuments, <<>>, 0)

\* LoadDocuments(repoID); readOK is whether the file could be read.
LoadDocuments(readOK) ==
    /\ Len(vdocuments) + Len(docsFile) <= MaxStored
    /\ IF docsFile = <<>>
       THEN /\ vret' = StoreCall("LoadDocuments", "", <<>>, vdocuments, <<>>, 0)
            /\ UNCHANGED vdocuments
       ELSE IF ~readOK
       THEN /\ vret' = StoreCall("LoadDocuments", "read failed", <<>>, vdocuments, <<>>, 0)
            /\ UNCHANGED vdocuments
       ELSE /\ vdocuments' = vdocuments \o UnmarshalDocs(docsFile)
            /\ vret' = StoreCall("LoadDocuments", "", UnmarshalDocs(docsFile),
                                 vdocuments, <<>>, 0)
    /\ UNCHANGED docsFile

RECURSIVE Dot(_, _)
Dot(a, b) == IF a = <<>> THEN 0 ELSE Head(a) * Head(b) + Dot(Tail(a), Tail(b))

\* cosineSimilarity(a, b) = dot / (sqrt(norm.a) * sqrt(norm.b)), kept as
\* the dot product and the product of the two squared norms; 0 when the
\* lengths differ or a norm is 0.
cosineSimilarity(a, b) ==
    IF Len(a) # Len(b) \/ Dot(a, a) = 0 \/ Dot(b, b) = 0
    THEN [dot |-> 0, norms |-> 1]
    ELSE [dot |-> Dot(a, b), norms |-> Dot(a, a) * Dot(b, b)]

\* s > t for two similarities of vectors of naturals.
ScoreGreater(s, t) == s.dot * s.dot * t.norms > t.dot * t.dot * s.norms

\* The documents SearchSimilar scores: those that have a vector.
Scorable(documents) == SelectSeq(documents, LAMBDA d : Len(d.Vector) # 0)

SearchSimilarScanOrder(queryVector, topK) ==
    LET scored == Scorable(vdocuments)
        resultCount == IF topK > Len(scored) THEN Len(scored) ELSE topK
    IN  {[i \in 1..resultCount |-> scored[i]]}

\* SearchSimilar(queryVector, topK) past its two checks: the lists it can
\* return, the first resultCount of an order sort.Slice can give.
SearchSimilar(queryVector, topK) ==
    LET scored == Scorable(vdocuments)
        resultCount == IF topK > Len(scored) THEN Len(scored) ELSE topK
        Sorted(p) ==
            \A i \in 1..(Len(scored) - 1) :
                ~ScoreGreater(cosineSimilarity(queryVector, scored[p[i + 1]].Vector),
                              cosineSimilarity(queryVector, scored[p[i]].Vector))
    IN  {[i \in 1..resultCount |-> scored[p[i]]] :
            p \in {q \in Orders(Len(scored)) : Sorted(q)}}

\* One call SearchSimilar(queryVector, topK).
Search(queryVector, topK) ==
    /\ IF Len(vdocuments) = 0
       THEN vret' = StoreCall("SearchSimilar", "no documents", <<>>, vdocuments, queryVector, topK)
       ELSE IF Len(queryVector) = 0
       THEN vret' = StoreCall("SearchSimilar", "empty query vector", <<>>, vdocuments, queryVector, topK)
       ELSE \E out \in SearchSimilar(queryVector, topK) :
               vret' = StoreCall("SearchSimilar", "", out, vdocuments, queryVector, topK)
    /\ UNCHANGED <<vdocuments, docsFile>>

(***************************************************************************)
(* Part VII: RepositoryManager.CloneRepository (embedding.go) with         *)
(* utils.DownloadRepo: the directories under basePath/repos.               *)
(***************************************************************************)
VARIABLES repoDirs, cret

cloneVars == <<repoDirs, cret>>

\* Repository URLs of requests: two repositories whose names differ in the
\* place of a "/" and a "_", one given with and without ".git" and over
\* http, and the empty URL.
CloneURLs ==
    {"", "https://h/a/b_c", "https://h/a_b/c",
     "https://h/x/y", "https://h/x/y.git", "http://h/x/y"}

\* The repository a URL designates: ".git" is optional.
RepositoryOf(repoURL) ==
    CASE repoURL = "https://h/a/b_c" -> "h/a/b_c"
      [] repoURL = "https://h/a_b/c" -> "h/a_b/c"
      [] repoURL \in {"https://h/x/y", "https://h/x/y.git", "http://h/x/y"} -> "h/x/y"
      [] OTHER -> ""

\* createRepoDirName(repoURL): "https://" and "http://" cut from the front,
\* ".git" from the end, every "/" and "\" replaced by "_".
createRepoDirName(repoURL) ==
    CASE repoURL \in {"https://h/a/b_c", "https://h/a_b/c"} -> "h_a_b_c"
      [] repoURL \in {"https://h/x/y", "https://h/x/y.git", "http://h/x/y"} -> "h_x_y"
      [] OTHER -> ""

DirNames == {createRepoDirName(u) : u \in CloneURLs \ {""}}

\* A path that does not exist, a directory without a checkout, and the
\* checkout of a repository.
NoDir == [exists |-> FALSE, checkout |-> ""]

LeftoverDir == [exists |-> TRUE, checkout |-> ""]

Checkout(repository) == [exists |-> TRUE, checkout |-> repository]

CloneCall(repoURL, path, err, cloned) ==
    [op |-> "CloneRepository", repoURL |-> repoURL, path |-> path, err |-> err,
     cloned |-> cloned]

\* No directory under basePath/repos, no call made.
NewRepositoryManager ==
    /\ repoDirs = [d \in DirNames |-> NoDir]
    /\ cret = [op |-> "", repoURL |-> "", path |-> "", err |-> "", cloned |-> FALSE]

\* CloneRepository(repoURL, accessToken) with utils.DownloadRepo.  gitFound,
\* mkdirOK and cloneOK are the outcomes of exec.LookPath, os.MkdirAll and
\* "git clone" should they be called.  A path that exists is returned as
\* it is; DownloadRepo makes the directory before it clones and leaves it
\* behind when the clone fails.
CloneRepository(repoURL, gitFound, mkdirOK, cloneOK) ==
    LET localPath == createRepoDirName(repoURL) IN
    IF repoURL = ""
    THEN /\ cret' = CloneCall(repoURL, "", "empty url", FALSE)
         /\ UNCHANGED repoDirs
    ELSE IF repoDirs[localPath].exists
    THEN /\ cret' = CloneCall(repoURL, localPath, "", FALSE)
         /\ UNCHANGED repoDirs
    ELSE IF ~gitFound
    THEN /\ cret' = CloneCall(repoURL, "", "clone failed", FALSE)
         /\ UNCHANGED repoDirs
    ELSE IF ~mkdirOK
    THEN /\ cret' = CloneCall(repoURL, "", "clone failed", FALSE)
         /\ UNCHANGED repoDirs
    ELSE IF ~cloneOK
    THEN /\ cret' = CloneCall(repoURL, "", "clone failed", TRUE)
         /\ repoDirs' = [repoDirs EXCEPT ![localPath] = LeftoverDir]
    ELSE /\ cret' = CloneCall(repoURL, localPath, "", TRUE)
         /\ repoDirs' = [repoDirs EXCEPT ![localPath] = Checkout(RepositoryOf(repoURL))]

(***************************************************************************)
(* Part VIII: EmbeddingService.SplitText (embedding.go).  A text is the    *)
(* list of its lines, a line the list of its words; the words of a text    *)
(* are numbered in reading order, so that every occurrence of a word is    *)
(* told from every other.  A chunk is the list of the words (word mode)    *)
(* or of the lines (line mode) that strings.Join puts into it.             *)
(***************************************************************************)
VARIABLES
    splitConfig,   \* e.config.TextSplitter
    stext,          \* the argument of SplitText
    spc,           \* "idle", "word", "line", "done" or "panic"
    wordIndex,     \* i of the word loop
    lineIndex,     \* lines the line loop has taken
    currentChunk,  \* the lines of the chunk under construction
    chunks         \* the chunks appended so far

splitVars == <<splitConfig, stext, spc, wordIndex, lineIndex, currentChunk, chunks>>

RECURSIVE WordsBefore(_, _)
WordsBefore(lens, k) == IF k = 1 THEN 0 ELSE WordsBefore(lens, k - 1) + lens[k - 1]

\* The texts SplitText is given: at least one line (strings.Split never
\* returns an empty list), each of at most MaxLineWords words.
SplitInputs ==
    {[k \in 1..Len(lens) |-> [j \in 1..lens[k] |-> WordsBefore(lens, k) + j]] :
        lens \in UNION {[1..n -> 0..MaxLineWords] : n \in 1..MaxLines}}

\* The splitter settings of the configuration file; no code checks them.
SplitConfigs ==
    [SplitBy : {"word", "line"}, ChunkSize : 1..MaxChunkSize, ChunkOverlap : 0..MaxChunkSize]

\* strings.Fields(text): the words of all lines, in order.
RECURSIVE Fields(_)
Fields(lines) == IF lines = <<>> THEN <<>> ELSE Head(lines) \o Fields(Tail(lines))

\* The sum of len(strings.Fields(l)) over the lines of a chunk.
RECURSIVE currentLength(_)
currentLength(chunk) ==
    IF chunk = <<>> THEN 0 ELSE Len(Head(chunk)) + currentLength(Tail(chunk))

SplitIdle ==
    /\ splitConfig = [SplitBy |-> "line", ChunkSize |-> 1, ChunkOverlap |-> 0]
    /\ stext = <<>>
    /\ spc = "idle"
    /\ wordIndex = 0
    /\ lineIndex = 0
    /\ currentChunk = <<>>
    /\ chunks = <<>>

\* SplitText(input) is called on a service configured with cfg.
SplitText(input, cfg) ==
    /\ spc = "idle"
    /\ splitConfig' = cfg
    /\ stext' = input
    /\ spc' = IF cfg.SplitBy = "word" THEN "word" ELSE "line"
    /\ wordIndex' = 0
    /\ lineIndex' = 0
    /\ currentChunk' = <<>>
    /\ chunks' = <<>>

\* One turn of the word loop: the test i < len(words), the body, and
\* i += chunkSize - overlap.  words[i:end] panics when i is negative.
WordIteration ==
    /\ spc = "word"
    /\ Len(chunks) < MaxChunks
    /\ LET words == Fields(stext)
           end == IF wordIndex + splitConfig.ChunkSize > Len(words)
                  THEN Len(words) ELSE wordIndex + splitConfig.ChunkSize
       IN  IF wordIndex >= Len(words)
           THEN spc' = "done" /\ UNCHANGED <<wordIndex, chunks>>
           ELSE IF wordIndex < 0
           THEN spc' = "panic" /\ UNCHANGED <<wordIndex, chunks>>
           ELSE /\ chunks' = Append(chunks, SubSeq(words, wordIndex + 1, end))
                /\ IF end = Len(words)
                   THEN spc' = "done" /\ UNCHANGED wordIndex
                   ELSE /\ wordIndex' = wordIndex + splitConfig.ChunkSize
                                          - splitConfig.ChunkOverlap
                        /\ UNCHANGED spc
    /\ UNCHANGED <<splitConfig, stext, lineIndex, currentChunk>>

\* One turn of the line loop.
LineIteration ==
    /\ spc = "line"
    /\ lineIndex < Len(stext)
    /\ LET line == stext[lineIndex + 1]
           overlap == splitConfig.ChunkOverlap
           full == /\ currentLength(currentChunk) + Len(line) > splitConfig.ChunkSize
                   /\ Len(currentChunk) > 0
           kept == IF ~full THEN currentChunk
                   ELSE IF overlap > 0 /\ Len(currentChunk) > overlap
                   THEN SubSeq(currentChunk, Len(currentChunk) - overlap + 1,
                               Len(currentChunk))
                   ELSE <<>>
       IN  /\ chunks' = IF full THEN Append(chunks, currentChunk) ELSE chunks
           /\ currentChunk' = Append(kept, line)
    /\ lineIndex' = lineIndex + 1
    /\ UNCHANGED <<splitConfig, stext, spc, wordIndex>>

\* After the line loop: the last chunk is appended and SplitText returns.
LineEnd ==
    /\ spc = "line"
    /\ lineIndex = Len(stext)
    /\ chunks' = IF Len(currentChunk) > 0 THEN Append(chunks, currentChunk) ELSE chunks
    /\ spc' = "done"
    /\ UNCHANGED <<splitConfig, stext, wordIndex, lineIndex, currentChunk>>

(***************************************************************************)
(* Part IX: RateLimitMiddleware (middleware.go) for the requests of one    *)
(* client IP.  Time is counted in whole seconds, as time.Now().Unix()      *)
(* gives it; the key "rate_limit:<ip>" holds a Redis sorted set.           *)
(***************************************************************************)
VARIABLES
    clock,       \* the current time in seconds
    zset,        \* the members of the sorted set of the key; member = score
    expireAt,    \* when Redis drops the key
    tokens,      \* limiter.tokens[ip]
    lastUpdate,  \* limiter.lastUpdate[ip], NoUpdate while it has no entry
    sent,        \* requests the client has sent
    answer       \* "" before the first request, then "next" or "429"

limitVars == <<clock, zset, expireAt, tokens, lastUpdate, sent, answer>>

windowSize == 60
maxRequests == 60
keyTTL == 60
rate == 1
capacity == 10
NoUpdate == -1

RateLimitIdle ==
    /\ clock = 0
    /\ zset = {}
    /\ expireAt = 0
    /\ tokens = 0
    /\ lastUpdate = NoUpdate
    /\ sent = 0
    /\ answer = ""

\* A second passes; a key whose time to live is over is dropped.
Tick ==
    /\ clock < MaxClock
    /\ clock' = clock + 1
    /\ zset' = IF expireAt <= clock + 1 THEN {} ELSE zset
    /\ UNCHANGED <<expireAt, tokens, lastUpdate, sent, answer>>

\* limiter.Allow(ip): the tokens and the time it stores, and its result.
Allow ==
    LET currentTokens ==
            IF tokens + (clock - lastUpdate) * rate > capacity
            THEN capacity ELSE tokens + (clock - lastUpdate) * rate
    IN  IF lastUpdate = NoUpdate
        THEN [tokens |-> capacity, lastUpdate |-> clock, ok |-> TRUE]
        ELSE IF currentTokens < 1
        THEN [tokens |-> tokens, lastUpdate |-> lastUpdate, ok |-> FALSE]
        ELSE [tokens |-> currentTokens - 1, lastUpdate |-> clock, ok |-> TRUE]

\* The handler for one request; redisOK is whether pipe.Exec succeeded.
RateLimit(redisOK) ==
    /\ sent < MaxSent
    /\ sent' = sent + 1
    /\ IF redisOK
       THEN LET kept == {m \in zset : ~(0 <= m /\ m <= clock - windowSize)}
                count == Cardinality(kept \cup {clock})
            IN  /\ zset' = kept \cup {clock}
                /\ expireAt' = clock + keyTTL
                /\ answer' = IF count > maxRequests THEN "429" ELSE "next"
                /\ UNCHANGED <<tokens, lastUpdate>>
       ELSE /\ tokens' = Allow.tokens
            /\ lastUpdate' = Allow.lastUpdate
            /\ answer' = IF Allow.ok THEN "next" ELSE "429"
            /\ UNCHANGED <<zset, expireAt>>
    /\ UNCHANGED clock

(***************************************************************************)
(* Specifications                                                          *)
(***************************************************************************)
RegisterCall == \E p \in ProviderObjs, initOK \in BOOLEAN : Register(p, initOK)

SetActiveCall == \E name \in Names : SetActive(name)

UnregisterCall == \E name \in Names, closeOK \in BOOLEAN : Unregister(name, closeOK)

Init == NewProviderRegistry /\ StreamIdle /\ MemoryIdle /\ CorpusIdle /\ MutexIdle
        /\ NewVectorStore /\ FilesReadable /\ NewRepositoryManager /\ SplitIdle
        /\ RateLimitIdle

vars == <<regVars, streamVars, memVars, corpusVars, mutexVars, storeVars, fsVars,
          cloneVars, splitVars, limitVars>>

\* What each part leaves alone.
exceptRegistry ==
    <<streamVars, memVars, corpusVars, mutexVars, storeVars, fsVars, cloneVars, splitVars,
      limitVars>>

exceptStream ==
    <<regVars, memVars, corpusVars, mutexVars, storeVars, fsVars, cloneVars, splitVars,
      limitVars>>

exceptMemory ==
    <<regVars, streamVars, corpusVars, mutexVars, storeVars, fsVars, cloneVars, splitVars,
      limitVars>>

exceptCorpus ==
    <<regVars, streamVars, memVars, mutexVars, storeVars, fsVars, cloneVars, splitVars,
      limitVars>>

exceptMutex ==
    <<regVars, streamVars, mret, sim, corpusVars, storeVars, fsVars, cloneVars, splitVars,
      limitVars>>

exceptStore ==
    <<regVars, streamVars, memVars, corpusVars, mutexVars, fsVars, cloneVars, splitVars,
      limitVars>>

exceptFiles ==
    <<regVars, streamVars, memVars, corpusVars, mutexVars, storeVars, cloneVars, splitVars,
      limitVars>>

NextRegistry ==
    \/ RegisterCall /\ UNCHANGED exceptRegistry
    \/ SetActiveCall /\ UNCHANGED exceptRegistry
    \/ GetActive /\ UNCHANGED exceptRegistry
    \/ UnregisterCall /\ UNCHANGED exceptRegistry

\* The registry under any sequence of calls.
Spec == Init /\ [][NextRegistry]_vars

CloseCall == \E closeOK \in [Names -> BOOLEAN] : Close(closeOK)

NextManager ==
    \/ RegisterCall /\ UNCHANGED exceptRegistry
    \/ SetActiveCall /\ UNCHANGED exceptRegistry
    \/ UnregisterCall /\ UNCHANGED exceptRegistry
    \/ CloseCall /\ UNCHANGED exceptRegistry

\* The registry behind a RAGManager that is closed, and used again.
SpecManager == Init /\ [][NextManager]_vars

NextStream ==
    \/ HandleChatCompletions /\ UNCHANGED exceptStream
    \/ StreamClientGone /\ UNCHANGED exceptStream
    \/ StreamStep /\ UNCHANGED exceptStream
    \/ GoogleStart /\ UNCHANGED exceptStream
    \/ GoogleNextResponse /\ UNCHANGED exceptStream
    \/ GoogleNextEOF /\ UNCHANGED exceptStream
    \/ GoogleNextError /\ UNCHANGED exceptStream
    \/ OpenAIDo /\ UNCHANGED exceptStream
    \/ OpenAISkipLine /\ UNCHANGED exceptStream
    \/ OpenAIChunkLine /\ UNCHANGED exceptStream
    \/ OpenAIEndOfBody /\ UNCHANGED exceptStream
    \/ OpenAIReadError /\ UNCHANGED exceptStream
    \/ Deliver /\ UNCHANGED exceptStream
    \/ RangeEnd /\ UNCHANGED exceptStream
    \/ ClientDisconnect /\ UNCHANGED exceptStream

\* One chat request streamed to a caller that may disconnect at any time.
SpecStream == Init /\ [][NextStream]_vars

\* The same request under a fair scheduler: a step of the handler or of
\* the goroutine that only waits for the other goroutine is taken in the
\* end.  Nothing is assumed of the backend: GenerateContentStream runs on
\* context.Background() and the http.Client has no timeout, so a read of
\* the backend stream may never return.
SpecStreamFair ==
    /\ SpecStream
    /\ WF_vars(StreamClientGone /\ UNCHANGED exceptStream)
    /\ WF_vars(StreamStep /\ UNCHANGED exceptStream)
    /\ WF_vars(GoogleStart /\ UNCHANGED exceptStream)
    /\ WF_vars(Deliver /\ UNCHANGED exceptStream)
    /\ WF_vars(RangeEnd /\ UNCHANGED exceptStream)

AddDialogTurnCall == \E q \in UserQueries, r \in Responses : AddDialogTurn(q, r)

GetRelevantContextCall == \E query \in UserQueries : GetRelevantContext(query)

NextMemory ==
    \/ AddDialogTurnCall /\ UNCHANGED exceptMemory
    \/ Clear /\ UNCHANGED exceptMemory
    \/ GetRelevantContextCall /\ UNCHANGED exceptMemory

\* One Memory under any sequence of calls.
SpecMemory == Init /\ [][NextMemory]_vars

NextSimilarity ==
    \E a \in Texts, b \in Texts : SimilarityScoreCall(a, b) /\ UNCHANGED exceptMemory

\* similarityScore applied to every pair of strings of at most MaxWords words.
SpecSimilarity == Init /\ [][NextSimilarity]_vars

\* A turn added to the Memory of the provider.
AddDialogTurnShort == Len(dialogTurns) < MaxRerankTurns /\ AddDialogTurnCall

EnhanceRetrievalCall ==
    \E query \in UserQueries, docs \in Candidates : EnhanceRetrieval(query, docs)

NextRerank ==
    \/ AddDialogTurnShort /\ UNCHANGED exceptMemory
    \/ EnhanceRetrievalCall /\ UNCHANGED exceptCorpus

\* Re-ranking of every candidate list under every short memory.
SpecRerank == Init /\ [][NextRerank]_vars

NewRAGCall == \E k \in {"google", "openai"} : NewRAG(k)

PrepareRetrieverCall == \E repo \in Repos : PrepareRetriever(repo)

IndexDocumentCall == \E doc \in DocPool : IndexDocument(doc)

DeleteDocumentCall == \E doc \in DocPool : DeleteDocument(doc.ID)

RetrieveDocumentsCall == \E query \in UserQueries : RetrieveDocuments(query)

NextCorpus ==
    \/ (\E f \in Files : MakeUnreadable(f)) /\ UNCHANGED exceptFiles
    \/ NewRAGCall /\ UNCHANGED exceptCorpus
    \/ PrepareRetrieverCall /\ UNCHANGED exceptCorpus
    \/ IndexDocumentCall /\ UNCHANGED exceptCorpus
    \/ DeleteDocumentCall /\ UNCHANGED exceptCorpus
    \/ RetrieveDocumentsCall /\ UNCHANGED exceptCorpus

\* One provider under any sequence of calls, one call at a time.  Nothing
\* in the program adds a turn to the Memory of a provider, so it is empty.
SpecCorpus == Init /\ [][NextCorpus]_vars

NextConcurrent ==
    \/ NewRAG("google") /\ UNCHANGED exceptCorpus
    \/ (\E t \in Threads, doc \in DocPool : IndexAdd(t, doc)) /\ UNCHANGED exceptCorpus
    \/ (\E t \in Threads : IndexLoad(t)) /\ UNCHANGED exceptCorpus
    \/ (\E t \in Threads : IndexStore(t)) /\ UNCHANGED exceptCorpus
    \/ (\E t \in Threads, doc \in DocPool : DeleteRows(t, doc.ID)) /\ UNCHANGED exceptCorpus
    \/ (\E t \in Threads : DeleteLoad(t)) /\ UNCHANGED exceptCorpus
    \/ (\E t \in Threads : DeleteStore(t)) /\ UNCHANGED exceptCorpus
    \/ (\E t \in Threads, query \in UserQueries : RetrieveConcurrent(t, query))
          /\ UNCHANGED exceptCorpus
    \/ (\E t \in Threads, repo \in Repos : PrepareSetURL(t, repo)) /\ UNCHANGED exceptCorpus
    \/ (\E t \in Threads : PrepareDatabase(t)) /\ UNCHANGED exceptCorpus

\* One GoogleRAG called by MaxThreads goroutines at once.
SpecConcurrent == Init /\ [][NextConcurrent]_vars

NextMemoryConcurrent ==
    \/ (\E t \in Threads, q \in UserQueries, r \in Responses :
            MemLock(t, "AddDialogTurn", DialogTurn(q, r))) /\ UNCHANGED exceptMutex
    \/ (\E t \in Threads : MemLock(t, "Clear", NoTurn)) /\ UNCHANGED exceptMutex
    \/ (\E t \in Threads : AddLoad(t)) /\ UNCHANGED exceptMutex
    \/ (\E t \in Threads : AddStore(t)) /\ UNCHANGED exceptMutex
    \/ (\E t \in Threads : ClearStore(t)) /\ UNCHANGED exceptMutex
    \/ (\E t \in Threads : MemUnlock(t)) /\ UNCHANGED exceptMutex
    \/ (\E t \in Threads, op \in Readers : MemRLock(t, op)) /\ UNCHANGED exceptMutex
    \/ (\E t \in Threads : ReadLen(t)) /\ UNCHANGED exceptMutex
    \/ (\E t \in Threads : ReadTurns(t)) /\ UNCHANGED exceptMutex
    \/ (\E t \in Threads : MemRUnlock(t)) /\ UNCHANGED exceptMutex

\* One Memory called by MaxThreads goroutines at once.
SpecMemoryConcurrent == Init /\ [][NextMemoryConcurrent]_vars

SaveDocumentsCall ==
    \E docs \in UNION {[1..n -> VecDocs] : n \in 0..1}, written \in BOOLEAN :
        SaveDocuments(docs, written)

SearchCall ==
    \E queryVector \in QueryVectors, topK \in 0..(MaxStored + 1) :
        Search(queryVector, topK)

NextStore ==
    \/ SaveDocumentsCall /\ UNCHANGED exceptStore
    \/ SearchCall /\ UNCHANGED exceptStore

\* Saves and searches on one VectorStore.
SpecStore == Init /\ [][NextStore]_vars

LoadDocumentsCall == \E readOK \in BOOLEAN : LoadDocuments(readOK)

SearchAllCall == \E queryVector \in {<<1, 1>>} : Search(queryVector, MaxStored)

NextStoreFiles ==
    \/ SaveDocumentsCall /\ UNCHANGED exceptStore
    \/ LoadDocumentsCall /\ UNCHANGED exceptStore
    \/ SearchAllCall /\ UNCHANGED exceptStore
    \/ Reopen /\ UNCHANGED exceptStore

\* A VectorStore and the file of one repository, saved, loaded and reopened.
SpecStoreFiles == Init /\ [][NextStoreFiles]_vars

exceptClone == <<regVars, streamVars, memVars, corpusVars, mutexVars, storeVars, fsVars, splitVars,
      limitVars>>

CloneRepositoryCall ==
    \E repoURL \in CloneURLs, gitFound \in BOOLEAN, mkdirOK \in BOOLEAN, cloneOK \in BOOLEAN :
        CloneRepository(repoURL, gitFound, mkdirOK, cloneOK)

NextClone == CloneRepositoryCall /\ UNCHANGED exceptClone

\* Any sequence of CloneRepository calls on one base path.
SpecClone == Init /\ [][NextClone]_vars

exceptSplit ==
    <<regVars, streamVars, memVars, corpusVars, mutexVars, storeVars, fsVars, cloneVars,
      limitVars>>

SplitTextCall == \E input \in SplitInputs, cfg \in SplitConfigs : SplitText(input, cfg)

NextSplit ==
    \/ SplitTextCall /\ UNCHANGED exceptSplit
    \/ WordIteration /\ UNCHANGED exceptSplit
    \/ LineIteration /\ UNCHANGED exceptSplit
    \/ LineEnd /\ UNCHANGED exceptSplit

\* One call of SplitText, turn by turn.
SpecSplit == Init /\ [][NextSplit]_vars

exceptLimit ==
    <<regVars, streamVars, memVars, corpusVars, mutexVars, storeVars, fsVars, cloneVars,
      splitVars>>

RateLimitCall == \E redisOK \in BOOLEAN : RateLimit(redisOK)

NextLimit ==
    \/ Tick /\ UNCHANGED exceptLimit
    \/ RateLimitCall /\ UNCHANGED exceptLimit

\* The requests of one client within MaxClock seconds.
SpecLimit == Init /\ [][NextLimit]_vars

(***************************************************************************)
(* Properties of the registry                                              *)
(***************************************************************************)

\* C1: in every reachable registry state the active name is unset ("") or a
\* key of the provider map, so a failing GetActive fails with "no active
\* provider" and never because the active name is missing from the map.
C1_ActiveIsRegistered ==
    /\ active = "" \/ active \in DOMAIN providers
    /\ (ret.op = "GetActive" /\ ret.err # "") =>
           (ret.err = "no active provider" /\ ret.was = "")
    /\ (ret.op = "GetActive" /\ ret.err = "") =>
           (ret.was \in DOMAIN providers /\ ret.val = providers[ret.was])

\* C1 witness: the active provider was unregistered while others remained,
\* and the active name now designates one of the remaining providers.
C1_Witness ==
    /\ ret.op = "Unregister"
    /\ ret.err = ""
    /\ ret.was = ret.name
    /\ active \in DOMAIN providers

\* C6: Register(p) under a name that is already registered returns the
\* "already registered" error without calling p.Initialize() and leaves
\* the provider map and the active name unchanged.
C6_DuplicateRegisterRejected ==
    [][\A p \in ProviderObjs, initOK \in BOOLEAN :
          (Name(p) \in DOMAIN providers /\ Register(p, initOK)) =>
              /\ ret'.err = "already registered"
              /\ calls' = <<>>
              /\ providers' = providers
              /\ active' = active]_vars

\* C6 witness (Scenario C): a second provider object answering to the name
\* of the active one was rejected; the first registration is still stored
\* and still active.
C6_Witness ==
    /\ ret.op = "Register"
    /\ ret.err = "already registered"
    /\ active = ret.name
    /\ providers[ret.name] # ret.prov

\* C7: when provider.Initialize() fails inside Register, Register returns
\* an error, the provider is not stored, the active name is unchanged and
\* every provider registered before stays registered.
C7_FailedInitializeNotStored ==
    [][\A p \in ProviderObjs :
          (Name(p) \notin DOMAIN providers /\ Register(p, FALSE)) =>
              /\ ret'.err = "init failed"
              /\ calls' = <<<<"Initialize", p>>>>
              /\ Name(p) \notin DOMAIN providers'
              /\ providers' = providers
              /\ active' = active]_vars

\* C7 witness: a registration failed in Initialize() while another provider
\* was registered and active.
C7_Witness ==
    /\ ret.op = "Register"
    /\ ret.err = "init failed"
    /\ ret.name \notin DOMAIN providers
    /\ active \in DOMAIN providers

\* C8: Unregister(name) of a registered provider calls its Close(); when it
\* succeeds the provider is gone from the map and the others are untouched;
\* if name was active, the active name is another still-registered provider
\* or "" when none remains; if name was not active the active name is
\* unchanged; an unknown name fails and changes nothing.
C8_Unregister ==
    [][\A name \in Names, closeOK \in BOOLEAN :
          Unregister(name, closeOK) =>
              /\ name \notin DOMAIN providers =>
                    /\ ret'.err = "not registered"
                    /\ calls' = <<>>
                    /\ providers' = providers
                    /\ active' = active
              /\ name \in DOMAIN providers =>
                    /\ calls' = <<<<"Close", providers[name]>>>>
                    /\ active # name => active' = active
              /\ (name \in DOMAIN providers /\ ret'.err = "") =>
                    /\ closeOK
                    /\ DOMAIN providers' = DOMAIN providers \ {name}
                    /\ \A n \in DOMAIN providers' : providers'[n] = providers[n]
                    /\ active = name =>
                          IF DOMAIN providers' = {}
                          THEN active' = ""
                          ELSE active' \in DOMAIN providers']_vars

\* C8 witness: the active provider was unregistered with two others left,
\* one of which is now active.
C8_Witness ==
    /\ ret.op = "Unregister"
    /\ ret.err = ""
    /\ ret.was = ret.name
    /\ Cardinality(DOMAIN providers) = 2
    /\ active \in DOMAIN providers

\* C9: the first successful Register on a registry makes that provider the
\* active one; a successful Register while an active name is set leaves it
\* unchanged; a set active name changes only in SetActive and Unregister.
C9_FirstRegistrationActive ==
    [][/\ \A p \in ProviderObjs :
             (Name(p) \notin DOMAIN providers /\ Register(p, TRUE)) =>
                 /\ ret'.err = ""
                 /\ DOMAIN providers = {} => active' = Name(p)
                 /\ active # "" => active' = active
                 /\ active = "" => active' = Name(p)
       /\ (active # "" /\ active' # active) =>
             ret'.op \in {"SetActive", "Unregister"}]_vars

\* C9 witness: a second provider was registered successfully and the first
\* one is still the active one.
C9_Witness ==
    /\ ret.op = "Register"
    /\ ret.err = ""
    /\ ret.was # ""
    /\ active = ret.was
    /\ active # ret.name
    /\ ret.name \in DOMAIN providers

\* C10: SetActive(name) with an unregistered name returns an error and
\* leaves the active name unchanged; with a registered name it succeeds,
\* and a GetActive that follows returns the provider registered under name.
C10_SetActive ==
    [][/\ \A name \in Names :
             SetActive(name) =>
                 /\ providers' = providers
                 /\ name \notin DOMAIN providers =>
                       (ret'.err = "not registered" /\ active' = active)
                 /\ name \in DOMAIN providers =>
                       (ret'.err = "" /\ active' = name)
       /\ (ret.op = "SetActive" /\ ret.err = "" /\ GetActive) =>
             (ret'.err = "" /\ ret'.val = providers[ret.name])]_vars

\* C10 witness: SetActive succeeded with a registered name other than the
\* active one and switched the active name to it.
C10_Witness ==
    /\ ret.op = "SetActive"
    /\ ret.err = ""
    /\ ret.was # ""
    /\ ret.was # ret.name
    /\ active = ret.name
    /\ active \in DOMAIN providers

\* C28: an Unregister whose provider.Close() fails returns the error and
\* leaves the provider map and the active name as they were.
C28_FailedCloseChangesNothing ==
    [][\A name \in Names :
          (name \in DOMAIN providers /\ Unregister(name, FALSE)) =>
              /\ ret'.err = "close failed"
              /\ providers' = providers
              /\ active' = active]_vars

\* C29: whenever a provider is registered the active name is not empty,
\* and a GetActive called with a provider registered succeeded.
C29_ActiveWhileRegistered ==
    /\ DOMAIN providers # {} => active # ""
    /\ (ret.op = "GetActive" /\ DOMAIN providers # {}) => ret.err = ""

\* C34: RAGManager.Close calls Close() on every provider that was
\* registered, whichever of them fail; it returns nil only when every one
\* closed, and then no provider is registered and no name is active.
C34_CloseUnregistersAll ==
    [][\A closeOK \in [Names -> BOOLEAN] :
          Close(closeOK) =>
              /\ \A n \in DOMAIN providers :
                    \E i \in 1..Len(calls') : calls'[i] = <<"Close", providers[n]>>
              /\ Len(calls') = Cardinality(DOMAIN providers)
              /\ ret'.err = "" =>
                    /\ \A n \in DOMAIN providers : closeOK[n]
                    /\ DOMAIN providers' = {}
                    /\ active' = ""
              /\ (\A n \in DOMAIN providers : closeOK[n]) => ret'.err = ""]_vars

\* C34 witness: Close returned an error after it had called Close() on
\* three providers, of which one is still registered: the failure of one
\* did not keep the others from being closed.
C34_Witness ==
    /\ ret.op = "Close" /\ ret.err # ""
    /\ Len(calls) = 3
    /\ Cardinality(DOMAIN providers) = 1

(***************************************************************************)
(* Properties of streaming generation                                      *)
(***************************************************************************)

\* The content fragments among those received (the error text left out).
ContentOf(frags) == SelectSeq(frags, LAMBDA f : f # ErrFragment)

\* The payloads of the "message" events of an event sequence.
Messages(evs) ==
    LET msgs == SelectSeq(evs, LAMBDA e : e.type = "message")
    IN  [i \in 1..Len(msgs) |-> msgs[i].data]

IsPrefix(s, t) ==
    /\ Len(s) <= Len(t)
    /\ \A i \in 1..Len(s) : s[i] = t[i]

\* C2: once a caller that has consumed some fragments of a stream has
\* disconnected, nothing more reaches it and the generation task stops at
\* once: no further fragment is produced by the backend, buffered for
\* sending, received from the channel or forwarded.
C2_StopsAtDisconnect ==
    [][(~connected /\ hpc = "range" /\ observed # <<>>) =>
          /\ observed' = observed
          /\ produced' = produced
          /\ pending' = pending
          /\ received' = received
          /\ events' = events]_vars

\* C3: a failed generation is retried exactly once: the stream of a failed
\* generation is closed, and an error fragment is sent, only after a second
\* request to the backend, and there is never a third request.
C3_RetriesOnce ==
    /\ attempts <= 2
    /\ (gpc = "closed" /\ backendEnd \in {"error", "httperror"}) => attempts = 2
    /\ (\E i \in 1..Len(received) : received[i] = ErrFragment) => attempts = 2

\* C4: at every moment the content fragments the consumer has received from
\* the channel are a prefix of the fragments the backend has produced (same
\* order, none duplicated, skipped or merged), and the handler has forwarded
\* exactly what it received, in the same order.
C4_ReceivedIsPrefix ==
    /\ IsPrefix(ContentOf(received), produced)
    /\ Messages(events) = received

\* C4 witness: three fragments of a longer stream have been received.
C4_Witness ==
    /\ Len(ContentOf(received)) >= 3
    /\ Len(produced) > Len(received)
    /\ ContentOf(received) = received

\* C5: the channel is closed exactly once; a stream ends either closed with
\* no error fragment, and then the backend's fragment sequence completed
\* normally, or with exactly one error fragment as its last element; no
\* fragment follows an error fragment.
C5_StreamEnding ==
    /\ closes <= 1
    /\ gpc = "closed" <=> closes = 1
    /\ \A i \in 1..Len(received) : received[i] = ErrFragment => i = Len(received)
    /\ gpc = "closed" =>
          \/ ContentOf(received) = received /\ backendEnd = "eof"
          \/ received # <<>> /\ received[Len(received)] = ErrFragment

\* C30: a goroutine that waits to send is received from in the end, and
\* once the caller has gone a goroutine that runs terminates in the end,
\* having closed its channel.
C30_GoroutineTerminates ==
    /\ (gpc \in {"send", "senderr"}) ~> (gpc \notin {"send", "senderr"})
    /\ (~connected /\ gpc \notin {"none", "closed"}) ~> (gpc = "closed" /\ closes = 1)

(***************************************************************************)
(* Properties of the conversation memory                                   *)
(***************************************************************************)

\* C11: each AddDialogTurn extends the log by exactly one turn, the added
\* (query, response) pair, at the end, and leaves every stored turn as it
\* was; a step after which the old log is no longer a prefix of the new
\* one is a Clear.
C11_AppendOnly ==
    [][/\ \A q \in UserQueries, r \in Responses :
              AddDialogTurn(q, r) =>
                  /\ Len(dialogTurns') = Len(dialogTurns) + 1
                  /\ dialogTurns'[Len(dialogTurns')] = DialogTurn(q, r)
                  /\ \A i \in 1..Len(dialogTurns) : dialogTurns'[i] = dialogTurns[i]
       /\ ~IsPrefix(dialogTurns, dialogTurns') => mret'.op = "Clear"]_vars

\* C11 witness: a turn was just added behind a different one.
C11_Witness ==
    /\ mret.op = "AddDialogTurn"
    /\ Len(dialogTurns) >= 2
    /\ dialogTurns[Len(dialogTurns)] # dialogTurns[Len(dialogTurns) - 1]

\* C12: GetRelevantContext(query) returns, in insertion order, the turns
\* among the last 3 whose similarity to the query is strictly above 0.3,
\* or all of the last 3 when none qualifies; the result is empty exactly
\* when the memory holds no turn; the log is not changed.
C12_RelevantContext ==
    [][\A query \in UserQueries :
          GetRelevantContext(query) =>
              LET n == Len(dialogTurns)
                  last3 == [i \in 1..(IF n > 3 THEN 3 ELSE n) |->
                               dialogTurns[(IF n > 3 THEN n - 3 ELSE 0) + i]]
                  Qualifies(t) ==
                      LET score == similarityScore(ToLower(query),
                                                   ToLower(t.UserQuery))
                      IN  10 * score.num > 3 * score.den
                  qualifying == SelectSeq(last3, Qualifies)
              IN  /\ mret'.val = FormatContext(IF qualifying = <<>>
                                               THEN last3 ELSE qualifying)
                  /\ mret'.val = <<>> <=> dialogTurns = <<>>
                  /\ dialogTurns' = dialogTurns]_vars

\* C12 witness: with four turns stored, the call returned only the third
\* turn although the first, outside the window, scores above 0.3 too.
C12_Witness ==
    /\ mret.op = "GetRelevantContext"
    /\ Len(dialogTurns) = 4
    /\ mret.val = FormatContext(<<dialogTurns[3]>>)
    /\ dialogTurns[3] # dialogTurns[1]
    /\ AboveThreshold(similarityScore(ToLower(mret.query),
                                      ToLower(dialogTurns[1].UserQuery)))

\* C13: similarityScore(a, b) lies in [0, 1], that is the match count is
\* at least 0 and at most the denominator, and similarityScore(a, a) = 1
\* when a is non-empty and every word of a has more than one character.
C13_ScoreInUnitInterval ==
    /\ 0 <= sim.num
    /\ sim.den > 0
    /\ sim.num <= sim.den
    /\ (/\ sim.a = sim.b
        /\ sim.a # <<>>
        /\ \A i \in 1..Len(sim.a) : WordLen(sim.a[i]) > 1) => sim.num = sim.den

(***************************************************************************)
(* Properties of re-ranking, corpus and retrieval                          *)
(***************************************************************************)

\* How many times d occurs in the list docs.
Count(d, docs) == Cardinality({i \in 1..Len(docs) : docs[i] = d})

\* C14: the list enhanceRetrievalWithMemory returns is a permutation of
\* the candidate list it was given: same length, and every document occurs
\* in it as many times as in the input, whatever the memory holds.
C14_RerankIsPermutation ==
    /\ Len(rerank.out) = Len(rerank.docs)
    /\ \A d \in RerankPool : Count(d, rerank.out) = Count(d, rerank.docs)

\* C14 witness: with a turn in memory the call changed the order of a list
\* in which one candidate matches no keyword of the context.
C14_Witness ==
    /\ dialogTurns # <<>>
    /\ rerank.out # rerank.docs
    /\ \E i \in 1..Len(rerank.docs) :
          calculateContextScore(rerank.docs[i],
              extractKeywords(RelevantContext(dialogTurns, rerank.query))) = 0

\* C15: PrepareRetriever for a repository of which the store already holds
\* documents reads no file and leaves the store as it was.
C15_PrepareCachedSkipsIndexing ==
    [][\A repo \in Repos :
          (/\ \E i \in 1..Len(rows) : rows[i].repo = repo
           /\ PrepareRetriever(repo)) =>
              /\ rret'.read = 0
              /\ rows' = rows]_vars

\* C16: RetrieveDocuments on a provider that holds no document, in
\* r.Documents or in the store, returns the empty-corpus error and no
\* result, for GoogleRAG and for OpenAIRAG.
C16_EmptyCorpusError ==
    [][\A query \in UserQueries :
          (/\ Documents = <<>>
           /\ rows = <<>>
           /\ RetrieveDocuments(query)) =>
              /\ rret'.err = "no documents"
              /\ rret'.docs = <<>>]_vars

\* C17: a RetrieveDocuments call that follows a RetrieveDocuments call
\* with the same query, nothing having changed in between, returns the
\* same documents in the same order.
C17_RepeatedRetrievalSame ==
    [][\A query \in UserQueries :
          (/\ rret.op = "RetrieveDocuments"
           /\ rret.arg = query
           /\ RetrieveDocuments(query)) =>
              /\ rret'.err = rret.err
              /\ rret'.docs = rret.docs]_vars

\* C18: no document of more than 8192 tokens is in the store, in
\* r.Documents or in a retrieval result, whatever calls were made.
C18_NoOversizedDocument ==
    /\ \A i \in 1..Len(rows) : rows[i].tokens <= TokenLimit
    /\ \A i \in 1..Len(Documents) : Documents[i].tokens <= TokenLimit
    /\ \A i \in 1..Len(rret.docs) : rret.docs[i].tokens <= TokenLimit

\* The rows of one repository.
RowsOf(rs, repo) == SelectSeq(rs, LAMBDA row : row.repo = repo)

\* C19: preparing a repository, indexing a document of a repository, or
\* deleting a document while a repository is the prepared one leaves the
\* stored rows of every other repository as they were, and a retrieval
\* returns only documents of the prepared repository.
C19_RepositoriesIndependent ==
    [][/\ \A repo \in Repos :
              PrepareRetriever(repo) =>
                  \A other \in Repos \ {repo} :
                      RowsOf(rows', other) = RowsOf(rows, other)
       /\ \A doc \in DocPool :
              IndexDocument(doc) =>
                  \A other \in Repos \ {doc.repo} :
                      RowsOf(rows', other) = RowsOf(rows, other)
       /\ \A doc \in DocPool :
              (RepoURL \in Repos /\ DeleteDocument(doc.ID)) =>
                  \A other \in Repos \ {RepoURL} :
                      RowsOf(rows', other) = RowsOf(rows, other)
       /\ \A query \in UserQueries :
              (RepoURL \in Repos /\ RetrieveDocuments(query)) =>
                  \A i \in 1..Len(rret'.docs) : rret'.docs[i].repo = RepoURL]_vars

\* C20: when goroutines have only indexed documents and retrieved, and
\* all their calls have returned, r.Documents holds one document for every
\* IndexDocument call that returned: no indexed document is lost.
C20_NoIndexedDocumentLost ==
    (\A t \in Threads : tpc[t].at \in {"idle", "indexed", "retrieved"}) =>
        /\ Len(Documents) = Cardinality({t \in Threads : tpc[t].at = "indexed"})
        /\ \A t \in Threads :
              tpc[t].at = "indexed" => \E i \in 1..Len(Documents) : Documents[i] = tpc[t].doc

C31_RetrieveAfterPrepare ==
    [][\A query \in UserQueries :
          (/\ rret.op = "PrepareRetriever"
           /\ rret.err = ""
           /\ readAllDocuments(rret.arg) # <<>>
           /\ RetrieveDocuments(query)) =>
              rret'.err # "no documents"]_vars

\* C32: r.Documents of a GoogleRAG holds the documents of the rows of the
\* collection, each as many times as the collection holds its row.
C32_ListMatchesDatabase ==
    kind = "google" =>
        /\ Len(Documents) = Len(rows)
        /\ \A i \in 1..Len(rows) :
              Cardinality({j \in 1..Len(Documents) : Row(Documents[j]) = rows[i]})
              = Cardinality({j \in 1..Len(rows) : rows[j] = rows[i]})

(***************************************************************************)
(* Properties of concurrent calls                                          *)
(***************************************************************************)

\* C21: on one Memory a writer excludes every other call: while a
\* goroutine is inside AddDialogTurn or Clear no other goroutine is inside
\* any method; a reader sees the same log when it copies the turns as when
\* it took the length; and when no Clear was called and every call has
\* returned, the log holds exactly one turn for every AddDialogTurn call,
\* each of the added turns.
C21_MemoryLock ==
    LET Inside(t) == mpc[t].at \notin {"idle", "done"}
        Added == {t \in Threads : mpc[t].op = "AddDialogTurn" /\ mpc[t].at = "done"}
    IN  /\ \A t, u \in Threads :
              (t # u /\ Inside(t) /\ mpc[t].op \in Writers) => ~Inside(u)
        /\ \A t \in Threads :
              mpc[t].at \in {"read", "done"} /\ mpc[t].op \in Readers =>
                  mpc[t].second = mpc[t].first
        /\ (/\ \A t \in Threads : ~Inside(t)
            /\ \A t \in Threads : mpc[t].op # "Clear") =>
                  /\ Len(dialogTurns) = Cardinality(Added)
                  /\ \A t \in Added :
                        \E i \in 1..Len(dialogTurns) : dialogTurns[i] = mpc[t].turn

\* C21 witness: two goroutines have each added a turn, the two turns
\* differ, and the log holds both.
C21_Witness ==
    \E t, u \in Threads :
        /\ t # u
        /\ mpc[t].op = "AddDialogTurn" /\ mpc[t].at = "done"
        /\ mpc[u].op = "AddDialogTurn" /\ mpc[u].at = "done"
        /\ mpc[t].turn # mpc[u].turn
        /\ Len(dialogTurns) = 2

\* C22: when goroutines have only prepared one and the same repository,
\* on a collection that was empty, and all their calls have returned, the
\* collection holds what a single PrepareRetriever stores: one row for
\* every eligible file, none twice.
C22_ConcurrentPrepareSameAsOne ==
    \A repo \in Repos :
        (/\ \A t \in Threads : tpc[t].at \in {"idle", "prepared"}
         /\ \A t \in Threads : tpc[t].at = "prepared" => tpc[t].id = repo
         /\ \E t \in Threads : tpc[t].at = "prepared") =>
            rows = [i \in 1..Len(readAllDocuments(repo)) |->
                       Row(readAllDocuments(repo)[i])]

(***************************************************************************)
(* Properties of the context score                                         *)
(***************************************************************************)

\* The keywords of the context the last call re-ranked with.
RerankKeywords == extractKeywords(RelevantContext(dialogTurns, rerank.query))

\* The call re-ranked: it returned with a context that was not empty.
Reranked == rerank # NoRerank /\ RelevantContext(dialogTurns, rerank.query) # <<>>

\* How many times the keyword occurs in the text.
Occurrences(text, keyword) ==
    Cardinality({i \in 1..Len(text) :
        IsSubstring(ToLowerWord(keyword), ToLowerDocWord(text[i]))})

RECURSIVE OccurrenceScore(_, _)
OccurrenceScore(doc, keywords) ==
    IF keywords = <<>>
    THEN 0
    ELSE Occurrences(doc.Text, Head(keywords))
         + 2 * Occurrences(doc.Title, Head(keywords))
         + OccurrenceScore(doc, Tail(keywords))

\* Ten times the importance factor: 1.5, 1.2, 1.0.
ImportanceFactor(doc) ==
    CASE doc.Importance = "high" -> 15
      [] doc.Importance = "medium" -> 12
      [] OTHER -> 10

\* C23: the score of every re-ranked candidate is 1.0 for each occurrence
\* of a keyword in its text plus 2.0 for each occurrence in its title,
\* times 1.5 for "high", 1.2 for "medium" and 1.0 otherwise, and the
\* re-ranked list is in non-increasing order of that score.  Both sides
\* are ten times the score.
C23_ContextScore ==
    Reranked =>
        /\ \A i \in 1..Len(rerank.out) :
              5 * calculateContextScore(rerank.out[i], RerankKeywords)
              = ImportanceFactor(rerank.out[i])
                * OccurrenceScore(rerank.out[i], RerankKeywords)
        /\ \A i \in 1..(Len(rerank.out) - 1) :
              ImportanceFactor(rerank.out[i])
                * OccurrenceScore(rerank.out[i], RerankKeywords)
              >= ImportanceFactor(rerank.out[i + 1])
                * OccurrenceScore(rerank.out[i + 1], RerankKeywords)

\* C24: in a re-ranked list no "medium" candidate stands before a "high"
\* candidate that is the same in everything but the importance.
C24_HighNotBelowMedium ==
    Reranked =>
        \A i, j \in 1..Len(rerank.out) :
            (/\ i < j
             /\ rerank.out[i].Importance = "medium"
             /\ rerank.out[j].Importance = "high") =>
                [rerank.out[i] EXCEPT !.Importance = "high"] # rerank.out[j]

\* C25: a re-ranked list is in non-increasing order of score, and two
\* candidates of equal score stand in the order they had in the input.
C25_StableDescending ==
    Reranked =>
        /\ \A i \in 1..(Len(rerank.out) - 1) :
              calculateContextScore(rerank.out[i], RerankKeywords)
              >= calculateContextScore(rerank.out[i + 1], RerankKeywords)
        /\ \E p \in Orders(Len(rerank.docs)) :
              /\ rerank.out = [i \in 1..Len(rerank.docs) |-> rerank.docs[p[i]]]
              /\ \A i, j \in 1..Len(rerank.docs) :
                    (/\ i < j
                     /\ calculateContextScore(rerank.docs[p[i]], RerankKeywords)
                        = calculateContextScore(rerank.docs[p[j]], RerankKeywords))
                    => p[i] < p[j]

(***************************************************************************)
(* Properties of the vector store                                          *)
(***************************************************************************)

\* The least of two numbers.
Min(a, b) == IF a < b THEN a ELSE b

\* C26: a search that returns without error on a store of n documents
\* with a vector returns min(K, n) of them: there are positions of the
\* scored documents, each taken once, that give the result, and no
\* document left out scores higher than one returned.
C26_TopK ==
    (vret.op = "SearchSimilar" /\ vret.err = "") =>
        LET scored == Scorable(vret.was)
            Score(d) == cosineSimilarity(vret.queryVector, d.Vector)
        IN  /\ Len(vret.docs) = Min(vret.topK, Len(scored))
            /\ \E p \in [1..Len(vret.docs) -> 1..Len(scored)] :
                  /\ \A i, j \in 1..Len(vret.docs) : p[i] = p[j] => i = j
                  /\ \A i \in 1..Len(vret.docs) : vret.docs[i] = scored[p[i]]
                  /\ \A i \in 1..Len(vret.docs), j \in 1..Len(scored) :
                        (\A k \in 1..Len(vret.docs) : p[k] # j) =>
                            ~ScoreGreater(Score(scored[j]), Score(scored[p[i]]))

\* C26 witness: a search with K below the number of scored documents
\* returned K of them and left out one that scores lower than the first
\* in scan order does.
C26_Witness ==
    /\ vret.op = "SearchSimilar" /\ vret.err = ""
    /\ vret.topK > 0
    /\ Len(vret.docs) = vret.topK
    /\ Len(Scorable(vret.was)) > vret.topK
    /\ ScoreGreater(cosineSimilarity(vret.queryVector, vret.docs[1].Vector),
                    cosineSimilarity(vret.queryVector, Scorable(vret.was)[1].Vector))

\* C26 witness of the other case: K exceeds the number of scored
\* documents and all of them are returned.
C26_WitnessAll ==
    /\ vret.op = "SearchSimilar" /\ vret.err = ""
    /\ Len(Scorable(vret.was)) > 1
    /\ vret.topK > Len(Scorable(vret.was))
    /\ Len(vret.docs) = Len(Scorable(vret.was))

\* C36: the store holds each stored document once: a LoadDocuments of a
\* file whose documents the store already holds, because it loaded or saved
\* them before, leaves v.documents and every result of SearchSimilar as
\* they were.
C36_LoadIsIdempotent ==
    [][\A readOK \in BOOLEAN :
          (/\ \A i \in 1..Len(docsFile) :
                 \E j \in 1..Len(vdocuments) : vdocuments[j] = UnmarshalDocs(docsFile)[i]
           /\ LoadDocuments(readOK))
          => /\ vdocuments' = vdocuments
             /\ \A queryVector \in QueryVectors \ {<<>>}, topK \in 0..MaxStored :
                   SearchSimilar(queryVector, topK)' = SearchSimilar(queryVector, topK)]_vars

\* C37: the turn-relevance score is symmetric: the score of a call
\* similarityScore(a, b) equals similarityScore(b, a), and the two are on
\* the same side of the relevance threshold.
C37_ScoreSymmetric ==
    sim # NoScore =>
        /\ sim.num * similarityScore(sim.b, sim.a).den
              = similarityScore(sim.b, sim.a).num * sim.den
        /\ AboveThreshold(similarityScore(sim.a, sim.b))
              <=> AboveThreshold(similarityScore(sim.b, sim.a))

(***************************************************************************)
(* Properties of the repository manager                                    *)
(***************************************************************************)

\* C33: a CloneRepository that returns a path without error returns the
\* directory that holds the checkout of the repository asked for, and a
\* CloneRepository that follows a failed clone of the same URL clones.
C33_PathIsCheckout ==
    [][\A repoURL \in CloneURLs \ {""}, gitFound, mkdirOK, cloneOK \in BOOLEAN :
          CloneRepository(repoURL, gitFound, mkdirOK, cloneOK) =>
              /\ cret'.err = "" =>
                    repoDirs'[cret'.path] = Checkout(RepositoryOf(repoURL))
              /\ (/\ cret.err = "clone failed" /\ cret.cloned
                  /\ cret.repoURL = repoURL
                  /\ gitFound /\ mkdirOK) => cret'.cloned]_vars

(***************************************************************************)
(* Properties of the text splitter                                         *)
(***************************************************************************)

\* Every word of the text (word mode) or every line (line mode) is in a chunk.
Covered ==
    IF splitConfig.SplitBy = "word"
    THEN \A w \in 1..Len(Fields(stext)) :
            \E c \in 1..Len(chunks) : \E j \in 1..Len(chunks[c]) :
                chunks[c][j] = Fields(stext)[w]
    ELSE \A k \in 1..Len(stext) :
            \E c \in 1..Len(chunks) : \E j \in 1..Len(chunks[c]) :
                chunks[c][j] = stext[k]

\* C35: SplitText terminates for every text and every ChunkSize and
\* ChunkOverlap, ChunkOverlap >= ChunkSize included, and every word or line
\* of the text is in a returned chunk: a turn of a loop ends the loop or
\* moves it to a later word or line, no turn panics, and at the return the
\* chunks cover the text.
C35_SplitTextTerminates ==
    [][/\ WordIteration => (spc' = "done" \/ wordIndex' > wordIndex)
       /\ LineIteration => lineIndex' > lineIndex
       /\ spc' # "panic"
       /\ spc' = "done" => Covered']_vars

(***************************************************************************)
(* Properties of the rate limiter                                          *)
(***************************************************************************)

\* C38: while Redis is reachable, a request that brings the client above
\* maxRequests requests within windowSize seconds is answered 429.
C38_RejectsAboveLimit ==
    [][(/\ lastUpdate = NoUpdate
        /\ clock < windowSize
        /\ RateLimit(TRUE)
        /\ sent' > maxRequests) => answer' = "429"]_vars

====
